---------------------------- MODULE Spec2Model ----------------------------
(***************************************************************************)
(* Model of the playlist generation engine of blagovesti_tv_playlist       *)
(* (fastapi-ffplayout/app/services/playlist_generator.py).                 *)
(*                                                                         *)
(* Text is modelled as sequences of one-character strings, so that the     *)
(* substring tests, lower-casing and file-name patterns of the code are    *)
(* computed as the code computes them.  Times are whole seconds.           *)
(***************************************************************************)
EXTENDS Integers, Sequences, FiniteSets, TLC

(***************************************************************************)
(* Text literals used by the code.                                         *)
(***************************************************************************)
s_psaltir == <<"p","s","a","l","t","i","r">>
s_molitv == <<"m","o","l","i","t","v">>
s_molitve == <<"m","o","l","i","t","v","e">>
s_duhov == <<"d","u","h","o","v">>
s_pouke == <<"p","o","u","k","e">>
s_duhovne_pouke == <<"d","u","h","o","v","n","e","_","p","o","u","k","e">>
s_decij == <<"d","e","c","i","j">>
s_deciji == <<"d","e","c","i","j","i">>
s_serij == <<"s","e","r","i","j">>
s_film == <<"f","i","l","m">>
s_serije == <<"s","e","r","i","j","e">>
s_dokument == <<"d","o","k","u","m","e","n","t">>
s_dokumentarni == <<"d","o","k","u","m","e","n","t","a","r","n","i">>
s_putopis == <<"p","u","t","o","p","i","s">>
s_putopisi == <<"p","u","t","o","p","i","s","i">>
s_muzik == <<"m","u","z","i","k">>
s_muzika == <<"m","u","z","i","k","a">>
s_ostalo == <<"o","s","t","a","l","o">>
s_spica == <<"s","p","i","c","a">>
s_spica_folder == <<"s","p","i","c","a","_","f","o","l","d","e","r">>
s_SPICA == <<"S","P","I","C","A">>
s_psaltir_01 == <<"p","s","a","l","t","i","r","_","0","1">>
s_psaltir_02 == <<"p","s","a","l","t","i","r","_","0","2">>
s__sezona == <<"_","s","e","z","o","n","a">>
s__serija == <<"_","s","e","r","i","j","a">>
s_ext_mp4 == <<".","m","p","4">>
s_ext_mkv == <<".","m","k","v">>
s_ext_mov == <<".","m","o","v">>
s_ext_avi == <<".","a","v","i">>
s_min15 == <<"1","5","m","i","n">>
s_min30 == <<"3","0","m","i","n">>
s_SPICA_BlagovestiTV == <<"S","P","I","C","A","_","B","l","a","g","o","v","e","s","t","i","T","V",".","m","p","4">>
Ascii ==
    <<" ","!","QUOTE","#","$","%","&","'","(",")","*","+",",","-",".","/","0","1","2","3","4","5","6","7","8","9",":",";","<","=",">","?","@","A","B","C","D","E","F","G","H","I","J","K","L","M","N","O","P","Q","R","S","T","U","V","W","X","Y","Z","[","BACKSLASH","]","^","_","BACKTICK","a","b","c","d","e","f","g","h","i","j","k","l","m","n","o","p","q","r","s","t","u","v","w","x","y","z","{","|","}","~">>

(***************************************************************************)
(* Text primitives (Python str operations).                                *)
(***************************************************************************)
Range(f) == {f[i] : i \in DOMAIN f}

\* a sequence given by a function constructor, with its elements computed once
Tuple(f) == <<>> \o f

\* a function given by a function constructor, with its values computed once
Table(f) == f @@ <<>>

\* ord(c): the code point of a character
Ord == Table([c \in Range(Ascii) |-> 31 + (CHOOSE i \in 1..Len(Ascii) : Ascii[i] = c)])

\* str.lower() on one character
LowerChar(c) == IF Ord[c] >= 65 /\ Ord[c] <= 90 THEN Ascii[Ord[c] + 32 - 31] ELSE c

\* str.lower()
Lower(s) == Tuple([i \in 1..Len(s) |-> LowerChar(s[i])])

\* s[a-1:b] (Python slicing clamps to the string)
Slice(s, a, b) ==
    LET lo == IF a < 1 THEN 1 ELSE a
        hi == IF b > Len(s) THEN Len(s) ELSE b
    IN  IF lo > hi THEN <<>> ELSE SubSeq(s, lo, hi)

\* t in s  (substring test)
Contains(s, t) ==
    \E i \in 1..(Len(s) - Len(t) + 1) : SubSeq(s, i, i + Len(t) - 1) = t

\* a < b on str (lexicographic by code point)
StrLess(a, b) ==
    \E i \in 1..(Len(b)) :
        /\ \A j \in 1..(i-1) : j <= Len(a) /\ a[j] = b[j]
        /\ \/ i = Len(a) + 1
           \/ i <= Len(a) /\ Ord[a[i]] < Ord[b[i]]

IsDigit(c) == Ord[c] >= 48 /\ Ord[c] <= 57

\* length of the maximal run of digits of s that starts at position i
RECURSIVE DigitRun(_, _)
DigitRun(s, i) ==
    IF i <= Len(s) /\ IsDigit(s[i]) THEN 1 + DigitRun(s, i + 1) ELSE 0

\* int(digits)
RECURSIVE ParseInt(_)
ParseInt(d) ==
    IF d = <<>> THEN 0
    ELSE 10 * ParseInt(Slice(d, 1, Len(d) - 1)) + (Ord[d[Len(d)]] - 48)

\* Path(name).suffix
Suffix(name) ==
    LET dots == {i \in 1..Len(name) : name[i] = "."}
    IN  IF dots = {} THEN <<>>
        ELSE LET i == CHOOSE k \in dots : \A m \in dots : m <= k
             IN  IF i > 1 /\ i < Len(name) THEN Slice(name, i, Len(name)) ELSE <<>>

\* os.path.join(a, b)
JoinPath(a, b) == a \o <<"/">> \o b

\* os.path.basename(p)
Basename(p) ==
    LET sl == {i \in 1..Len(p) : p[i] = "/"}
    IN  IF sl = {} THEN p
        ELSE Slice(p, (CHOOSE k \in sl : \A m \in sl : m <= k) + 1, Len(p))

\* os.path.dirname(p)
Dirname(p) ==
    LET sl == {i \in 1..Len(p) : p[i] = "/"}
    IN  IF sl = {} THEN <<>>
        ELSE LET k == CHOOSE k \in sl : \A m \in sl : m <= k
             IN  IF k = 1 THEN <<"/">> ELSE Slice(p, 1, k - 1)
(***************************************************************************)
(* The media files the scenarios draw from: folder, file name, duration in *)
(* seconds as the probe reports it, modification time.  A path is         *)
(* represented by the file's index in this table; PathText gives its text.*)
(***************************************************************************)
VideoDir == <<"/","m">>
Files == <<
    [folder |-> <<"1","5","m","i","n">>,
     filename |-> <<"k","r","a","t","k","i","_","0","1",".","m","p","4">>,
     duration |-> 900, mtime |-> 11],
    [folder |-> <<"3","0","m","i","n">>,
     filename |-> <<"d","u","g","i","_","0","1",".","m","p","4">>,
     duration |-> 1800, mtime |-> 12],
    [folder |-> <<"D","e","c","i","j","i">>,
     filename |-> <<"c","r","t","a","n","i","_","0","1",".","m","p","4">>,
     duration |-> 3000, mtime |-> 5],
    [folder |-> <<"D","o","k","u","m","e","n","t","a","r","n","i">>,
     filename |-> <<"d","o","k","_","a",".","m","p","4">>,
     duration |-> 5400, mtime |-> 3],
    [folder |-> <<"D","o","k","u","m","e","n","t","a","r","n","i">>,
     filename |-> <<"d","o","k","_","b",".","m","p","4">>,
     duration |-> 5400, mtime |-> 1],
    [folder |-> <<"D","o","k","u","m","e","n","t","a","r","n","i">>,
     filename |-> <<"d","o","k","_","c",".","m","p","4">>,
     duration |-> 5400, mtime |-> 2],
    [folder |-> <<"M","o","l","i","t","v","e">>,
     filename |-> <<"j","u","t","a","r","n","j","a",".","m","p","4">>,
     duration |-> 900, mtime |-> 7],
    [folder |-> <<"M","o","l","i","t","v","e">>,
     filename |-> <<"v","e","c","e","r","n","j","a",".","m","p","4">>,
     duration |-> 1200, mtime |-> 7],
    [folder |-> <<"M","u","z","i","k","a">>,
     filename |-> <<"k","o","n","c","e","r","t",".","m","p","4">>,
     duration |-> 7200, mtime |-> 9],
    [folder |-> <<"M","u","z","i","k","a">>,
     filename |-> <<"n","a","p","o","m","e","n","a",".","t","x","t">>,
     duration |-> 0, mtime |-> 9],
    [folder |-> <<"P","s","a","l","t","i","r">>,
     filename |-> <<"P","s","a","l","t","i","r","_","0","1",".","m","p","4">>,
     duration |-> 3600, mtime |-> 1],
    [folder |-> <<"P","s","a","l","t","i","r">>,
     filename |-> <<"P","s","a","l","t","i","r","_","0","2",".","m","p","4">>,
     duration |-> 3600, mtime |-> 1],
    [folder |-> <<"S","e","r","i","j","e">>,
     filename |-> <<"S","h","o","w","_","S","0","1","E","0","1",".","m","p","4">>,
     duration |-> 3000, mtime |-> 20],
    [folder |-> <<"S","e","r","i","j","e">>,
     filename |-> <<"S","h","o","w","_","S","0","1","E","0","2",".","m","p","4">>,
     duration |-> 3000, mtime |-> 21],
    [folder |-> <<"S","e","r","i","j","e">>,
     filename |-> <<"Z","e","t","a","_","S","E","Z","O","N","A","1","_","1","_","s","e","r","i","j","a",".","m","p","4">>,
     duration |-> 3000, mtime |-> 22],
    [folder |-> <<"s","p","i","c","a">>,
     filename |-> <<"S","P","I","C","A","_","B","l","a","g","o","v","e","s","t","i","T","V",".","m","p","4">>,
     duration |-> 30, mtime |-> 1],
    [folder |-> <<"F","i","l","m","o","v","i">>,
     filename |-> <<"Z","o","r","a","_","S","0","1","E","0","1",".","m","p","4">>,
     duration |-> 3000, mtime |-> 23]
>>

FileIds == DOMAIN Files
NoVideo == 0   \* Python None where a video dict is expected

\* the file of the table with a given name
FileNamed(filename) == CHOOSE p \in FileIds : Files[p].filename = filename

f_kratki == FileNamed(<<"k","r","a","t","k","i","_","0","1",".","m","p","4">>)
f_dugi == FileNamed(<<"d","u","g","i","_","0","1",".","m","p","4">>)
f_crtani == FileNamed(<<"c","r","t","a","n","i","_","0","1",".","m","p","4">>)
f_dok_a == FileNamed(<<"d","o","k","_","a",".","m","p","4">>)
f_dok_b == FileNamed(<<"d","o","k","_","b",".","m","p","4">>)
f_dok_c == FileNamed(<<"d","o","k","_","c",".","m","p","4">>)
f_jutarnja == FileNamed(<<"j","u","t","a","r","n","j","a",".","m","p","4">>)
f_vecernja == FileNamed(<<"v","e","c","e","r","n","j","a",".","m","p","4">>)
f_koncert == FileNamed(<<"k","o","n","c","e","r","t",".","m","p","4">>)
f_napomena == FileNamed(<<"n","a","p","o","m","e","n","a",".","t","x","t">>)
f_psaltir01 == FileNamed(<<"P","s","a","l","t","i","r","_","0","1",".","m","p","4">>)
f_psaltir02 == FileNamed(<<"P","s","a","l","t","i","r","_","0","2",".","m","p","4">>)
f_show_e01 == FileNamed(<<"S","h","o","w","_","S","0","1","E","0","1",".","m","p","4">>)
f_show_e02 == FileNamed(<<"S","h","o","w","_","S","0","1","E","0","2",".","m","p","4">>)
f_zeta == FileNamed(<<"Z","e","t","a","_","S","E","Z","O","N","A","1","_","1","_","s","e","r","i","j","a",".","m","p","4">>)
f_spica == FileNamed(<<"S","P","I","C","A","_","B","l","a","g","o","v","e","s","t","i","T","V",".","m","p","4">>)
f_zora == FileNamed(<<"Z","o","r","a","_","S","0","1","E","0","1",".","m","p","4">>)

\* str(f.resolve()) of a scanned file
PathText(p) == JoinPath(JoinPath(VideoDir, Files[p].folder), Files[p].filename)

\* The text of the category names.  A category name is held as a string;
\* where the code inspects its characters the model looks the text up here.
CatText ==
    [c \in {"psaltir", "molitve", "duhovne_pouke", "deciji", "serije",
            "dokumentarni", "putopisi", "muzika", "ostalo", "15min", "30min"} |->
        CASE c = "psaltir" -> s_psaltir
          [] c = "molitve" -> s_molitve
          [] c = "duhovne_pouke" -> s_duhovne_pouke
          [] c = "deciji" -> s_deciji
          [] c = "serije" -> s_serije
          [] c = "dokumentarni" -> s_dokumentarni
          [] c = "putopisi" -> s_putopisi
          [] c = "muzika" -> s_muzika
          [] c = "ostalo" -> s_ostalo
          [] c = "15min" -> s_min15
          [] c = "30min" -> s_min30]


(***************************************************************************)
(* Category Resolver: _map_folder_to_category, _is_spica_category,         *)
(* _is_movie_category.                                                     *)
(***************************************************************************)
\* the tests with the second one made first
MapLowered_Swapped(folder) ==
    IF Contains(folder, s_molitv) THEN "molitve"
    ELSE IF Contains(folder, s_psaltir) THEN "psaltir"
    ELSE IF Contains(folder, s_duhov) \/ Contains(folder, s_pouke) THEN "duhovne_pouke"
    ELSE IF Contains(folder, s_decij) THEN "deciji"
    ELSE IF Contains(folder, s_serij) \/ Contains(folder, s_film) THEN "serije"
    ELSE IF Contains(folder, s_dokument) THEN "dokumentarni"
    ELSE IF Contains(folder, s_putopis) THEN "putopisi"
    ELSE IF Contains(folder, s_muzik) THEN "muzika"
    ELSE "ostalo"

\* the ordered substring tests, on the lower-cased folder name
MapLowered(folder) ==
    IF Contains(folder, s_psaltir) THEN "psaltir"
    ELSE IF Contains(folder, s_molitv) THEN "molitve"
    ELSE IF Contains(folder, s_duhov) \/ Contains(folder, s_pouke) THEN "duhovne_pouke"
    ELSE IF Contains(folder, s_decij) THEN "deciji"
    ELSE IF Contains(folder, s_serij) \/ Contains(folder, s_film) THEN "serije"
    ELSE IF Contains(folder, s_dokument) THEN "dokumentarni"
    ELSE IF Contains(folder, s_putopis) THEN "putopisi"
    ELSE IF Contains(folder, s_muzik) THEN "muzika"
    ELSE "ostalo"

_map_folder_to_category(folder_name) == MapLowered(Lower(folder_name))

IsSpicaLowered(category_lower) ==
    category_lower = s_spica \/ category_lower = s_spica_folder
    \/ Contains(category_lower, s_spica)

_is_spica_category(category) == IsSpicaLowered(Lower(category))

movie_categories == <<"serije", "dokumentarni", "deciji">>

_is_movie_category(category) == category \in Range(movie_categories)


(***************************************************************************)
(* Series Metadata Extractor: _extract_series_info.                        *)
(* re.search with a lazy (.+?) prefix matches at the first position where  *)
(* the rest of the pattern matches; \d+ takes the maximal run of digits.   *)
(***************************************************************************)
NoMatch == [name |-> <<>>, season |-> -1, episode |-> -1]

\* the least element of a set of positions, 0 when there is none
FirstOf(P) == IF P = {} THEN 0 ELSE CHOOSE q \in P : \A r \in P : q <= r

\* "(\d+)<sep>(\d+)<rest>" at position a, n1 being the length of the first run
TwoNumbersAt(fn, low, a, n1, sep, rest) ==
    /\ n1 >= 1
    /\ a + n1 <= Len(fn) /\ low[a + n1] = sep
    /\ DigitRun(fn, a + n1 + 1) >= 1
    /\ Slice(low, a + n1 + 1 + DigitRun(fn, a + n1 + 1),
                  a + n1 + DigitRun(fn, a + n1 + 1) + Len(rest)) = rest

\* does "_SEZONA(\d+)_(\d+)_serija" match at position p (case-insensitive)
MatchesPattern1At(fn, low, p) ==
    /\ Slice(low, p, p + 6) = s__sezona
    /\ TwoNumbersAt(fn, low, p + 7, DigitRun(fn, p + 7), "_", s__serija)

\* does "_S(\d+)E(\d+)" match at position p (case-insensitive)
MatchesPattern2At(fn, low, p) ==
    /\ Slice(low, p, p + 1) = <<"_", "s">>
    /\ TwoNumbersAt(fn, low, p + 2, DigitRun(fn, p + 2), "e", <<>>)

\* the groups of a match whose prefix ends before p and whose season starts at a
SeriesFields(fn, p, a, n1) ==
    [name |-> Slice(fn, 1, p - 1),
     season |-> ParseInt(Slice(fn, a, a + n1 - 1)),
     episode |-> ParseInt(Slice(fn, a + n1 + 1, a + n1 + DigitRun(fn, a + n1 + 1)))]

ExtractAt(fn, p1, p2) ==
    IF p1 # 0 THEN SeriesFields(fn, p1, p1 + 7, DigitRun(fn, p1 + 7))
    ELSE IF p2 # 0 THEN SeriesFields(fn, p2, p2 + 2, DigitRun(fn, p2 + 2))
    ELSE NoMatch

ExtractLowered(fn, low) ==
    ExtractAt(fn, FirstOf({p \in 2..Len(fn) : MatchesPattern1At(fn, low, p)}),
                  FirstOf({p \in 2..Len(fn) : MatchesPattern2At(fn, low, p)}))

_extract_series_info(filename) == ExtractLowered(filename, Lower(filename))

(***************************************************************************)
(* Scanner: _scan_videos.  fs is the set of files present on disk.         *)
(***************************************************************************)
\* sorted(...) of a set of names
SortedNames(S) ==
    Tuple([i \in 1..Cardinality(S) |->
             CHOOSE x \in S : Cardinality({y \in S : StrLess(y, x)}) = i - 1])

VideoSuffixes == {s_ext_mp4, s_ext_mkv, s_ext_mov, s_ext_avi}

\* the files of a set in the order of a sorted list of their names
InNameOrder(vids, names) ==
    Tuple([i \in 1..Len(names) |-> CHOOSE p \in vids : Files[p].filename = names[i]])

\* the video files of one folder, in sorted(folder.iterdir()) order
FolderVideos(vids) == InNameOrder(vids, SortedNames({Files[p].filename : p \in vids}))

FolderFiles(fs_, folder) ==
    FolderVideos({p \in fs_ : Files[p].folder = folder
                             /\ Lower(Suffix(Files[p].filename)) \in VideoSuffixes})

\* a dict of category -> list of videos: its keys in insertion order and its lists
EmptyVideos ==
    [keys |-> <<>>,
     lists |-> [c \in {"psaltir", "molitve", "duhovne_pouke", "deciji", "serije",
                       "dokumentarni", "putopisi", "muzika", "ostalo"} |-> <<>>]]

\* videos[category].extend(files), creating the key when it is new
Extend(videos, category, files) ==
    IF files = <<>> THEN videos
    ELSE [keys  |-> IF category \in Range(videos.keys) THEN videos.keys
                    ELSE Append(videos.keys, category),
          lists |-> [videos.lists EXCEPT ![category] = @ \o files]]

RECURSIVE ScanFolders(_, _, _)
ScanFolders(fs_, folders, videos) ==
    IF folders = <<>> THEN videos
    ELSE ScanFolders(fs_, Tail(folders),
            Extend(videos, _map_folder_to_category(Head(folders)),
                   FolderFiles(fs_, Head(folders))))

_scan_videos(fs_) ==
    ScanFolders(fs_, SortedNames({Files[p].folder : p \in fs_}), EmptyVideos)

\* videos.get(category, [])
GetList(videos, category) ==
    IF category \in Range(videos.keys) THEN videos.lists[category] ELSE <<>>

\* the series info of every file of the table
SeriesInfo == Tuple([p \in 1..Len(Files) |-> _extract_series_info(Files[p].filename)])

(***************************************************************************)
(* Dates and timestamps.  A datetime is a day number and the seconds since *)
(* midnight; isoformat() yields a string that Python compares              *)
(* lexicographically, modelled as the tuple <<day, sec>>.  The empty tuple *)
(* is the empty string, which fromisoformat rejects.                       *)
(***************************************************************************)
NoDate == [day |-> -1, sec |-> -1]     \* Python None where a datetime is expected

\* datetime.strptime(date_str, "%Y-%m-%d"): midnight of that day
Midnight(day) == [day |-> day, sec |-> 0]

\* datetime.isoformat()
isoformat(dt) == <<dt.day, dt.sec>>

\* datetime.fromisoformat raises ValueError unless the text is a timestamp
Parsable(stamp) == Len(stamp) = 2

\* datetime.fromisoformat(stamp)
fromisoformat(stamp) == [day |-> stamp[1], sec |-> stamp[2]]

\* a < b on timestamp strings
StampLess(a, b) ==
    \E i \in 1..Len(b) :
        /\ \A j \in 1..(i-1) : j <= Len(a) /\ a[j] = b[j]
        /\ \/ i = Len(a) + 1
           \/ i <= Len(a) /\ a[i] < b[i]

(***************************************************************************)
(* PlaybackState: self.state.  last_played maps the paths that have an     *)
(* entry to their timestamp; serije_last_episode_path is NoVideo when the  *)
(* key is absent.                                                          *)
(***************************************************************************)
EmptyState == [last_played |-> << >>, serije_last_episode_path |-> NoVideo]

\* a variant that forgets the pick: the state is left as it was
_update_last_played_Forgotten(state, filepath, date_obj) == state

\* a variant that keeps no entry but the new one
_update_last_played_Wiped(state, filepath, date_obj) ==
    [state EXCEPT !.last_played = Table([p \in {filepath} |-> isoformat(date_obj)])]

\* _update_last_played
_update_last_played(state, filepath, date_obj) ==
    [state EXCEPT !.last_played =
        Table([p \in (DOMAIN state.last_played) \cup {filepath} |->
                 IF p = filepath THEN isoformat(date_obj) ELSE state.last_played[p]])]

\* a variant whose window is one day longer
WithinWindow_Inclusive(last_played_date, date_obj, recurrence_days) ==
    date_obj.day - last_played_date.day <= recurrence_days

\* (date_obj.date() - last_played_date.date()).days < self.recurrence_days
WithinWindow(last_played_date, date_obj, recurrence_days) ==
    date_obj.day - last_played_date.day < recurrence_days

\* _was_played_recently
_was_played_recently(state, filepath, date_obj, recurrence_days) ==
    IF filepath \notin DOMAIN state.last_played THEN FALSE
    ELSE IF ~Parsable(state.last_played[filepath]) THEN FALSE
    ELSE WithinWindow(fromisoformat(state.last_played[filepath]), date_obj, recurrence_days)

(***************************************************************************)
(* Recency-Priority Selector: _get_next_video.                             *)
(***************************************************************************)
\* list.sort(key=...): a stable sort
StableSort(s, Less(_, _)) ==
    Tuple([r \in 1..Len(s) |->
             s[CHOOSE i \in 1..Len(s) :
                 Cardinality({j \in 1..Len(s) :
                     \/ Less(s[j], s[i])
                     \/ (~Less(s[i], s[j]) /\ j < i)}) = r - 1]])

\* a variant whose key leaves the modification time out
SortKey_NoMtime(last_played_map, mtime, v) ==
    IF v \notin DOMAIN last_played_map
    THEN [tier |-> 0, stamp |-> <<>>, mtime |-> 0]
    ELSE [tier |-> 1, stamp |-> last_played_map[v], mtime |-> 0]

\* sort_key(video): (0, 0, mtime) when never played, else (1, timestamp, mtime)
SortKey(last_played_map, mtime, v) ==
    IF v \notin DOMAIN last_played_map
    THEN [tier |-> 0, stamp |-> <<>>, mtime |-> mtime]
    ELSE [tier |-> 1, stamp |-> last_played_map[v], mtime |-> mtime]

\* a variant that compares the tier and the modification time only
KeyLess_NoStamp(ka, kb) ==
    \/ ka.tier < kb.tier
    \/ ka.tier = kb.tier /\ ka.mtime < kb.mtime

\* ka < kb on sort keys (tuple comparison)
KeyLess(ka, kb) ==
    \/ ka.tier < kb.tier
    \/ /\ ka.tier = kb.tier
       /\ \/ StampLess(ka.stamp, kb.stamp)
          \/ ka.stamp = kb.stamp /\ ka.mtime < kb.mtime

\* sort_key(a) < sort_key(b)
SortKeyLess(last_played_map, a, b) ==
    KeyLess(SortKey(last_played_map, Files[a].mtime, a),
            SortKey(last_played_map, Files[b].mtime, b))

\* category in self.daily_movies
HasDaily(daily_movies, category) ==
    category \in DOMAIN daily_movies /\ daily_movies[category] # NoVideo

\* a variant that filters nothing out
WithoutDaily_Kept(daily_path, files) == files

\* [f for f in files if f["path"] != daily_path]
WithoutDaily(daily_path, files) ==
    LET NotDaily(f) == f # daily_path
    IN  SelectSeq(files, NotDaily)

\* a variant that keeps the day's feature item among the candidates
Candidates_WithFeature(daily_movies, files, category, skip_daily) == files

\* the candidate list: the pool without the day's feature item, unless that
\* leaves nothing (lines 156-162)
Candidates(daily_movies, files, category, skip_daily) ==
    IF skip_daily /\ HasDaily(daily_movies, category)
    THEN IF WithoutDaily(daily_movies[category], files) = <<>> THEN files
         ELSE WithoutDaily(daily_movies[category], files)
    ELSE files

\* candidates is the list object videos[category] itself (not a filtered copy)
CandidatesIsFiles(daily_movies, files, category, skip_daily) ==
    ~(skip_daily /\ HasDaily(daily_movies, category))
    \/ WithoutDaily(daily_movies[category], files) = <<>>

\* a variant whose filter keeps the recently played items instead
ValidCandidates_Inverted(state, candidates, current_date_obj, recurrence_days) ==
    LET Recent(f) == _was_played_recently(state, f, current_date_obj, recurrence_days)
    IN  SelectSeq(candidates, Recent)

\* valid_candidates (line 165)
ValidCandidates(state, candidates, current_date_obj, recurrence_days) ==
    LET Valid(f) == ~_was_played_recently(state, f, current_date_obj, recurrence_days)
    IN  SelectSeq(candidates, Valid)

\* selection_pool (line 170)
SelectionPool(valid_candidates, candidates) ==
    IF valid_candidates # <<>> THEN valid_candidates ELSE candidates

\* selection_pool.sort(key=sort_key) (lines 172-184)
SortPool(state, selection_pool) ==
    LET Less(a, b) == SortKeyLess(state.last_played, a, b)
    IN  StableSort(selection_pool, Less)

\* lines 189-196; in_place: the sorted pool was the list videos[category] itself
ChooseFirst(state, videos, category, current_date_obj, sorted, in_place) ==
    [chosen |-> sorted[1],
     state  |-> _update_last_played(state, sorted[1], current_date_obj),
     videos |-> IF in_place THEN [videos EXCEPT !.lists[category] = sorted] ELSE videos]

PickAmong(state, videos, category, current_date_obj, valid_candidates, candidates, is_files) ==
    ChooseFirst(state, videos, category, current_date_obj,
                SortPool(state, SelectionPool(valid_candidates, candidates)),
                valid_candidates = <<>> /\ is_files)

PickFrom(state, videos, category, current_date_obj, recurrence_days, candidates, is_files) ==
    PickAmong(state, videos, category, current_date_obj,
              ValidCandidates(state, candidates, current_date_obj, recurrence_days),
              candidates, is_files)

\* _get_next_video: the result, the updated state and the videos dict (whose
\* list is sorted in place when the selection pool is the list itself)
_get_next_video(state, daily_movies, videos, category, skip_daily, target_date, now, recurrence_days) ==
    IF GetList(videos, category) = <<>>
    THEN [chosen |-> NoVideo, state |-> state, videos |-> videos]
    ELSE PickFrom(state, videos, category,
                  IF target_date # NoDate THEN target_date ELSE now,
                  recurrence_days,
                  Candidates(daily_movies, GetList(videos, category), category, skip_daily),
                  CandidatesIsFiles(daily_movies, GetList(videos, category), category,
                                    skip_daily))

\* what one _get_next_video call was given and what it returned
CallRecord(state, daily_movies, videos, category, skip_daily, target_date, r) ==
    [category |-> category, skip_daily |-> skip_daily, target_date |-> target_date,
     files |-> GetList(videos, category), last_played |-> state.last_played,
     daily_movies |-> daily_movies, chosen |-> r.chosen]

(***************************************************************************)
(* Series grouping: _group_series_by_name.  The result is the list of      *)
(* groups in dict insertion order (first appearance of the series name),   *)
(* each group sorted by (season, episode).                                 *)
(***************************************************************************)
EpisodeLess(info, a, b) ==
    \/ info[a].season < info[b].season
    \/ /\ info[a].season = info[b].season
       /\ info[a].episode < info[b].episode

RECURSIVE GroupNames(_, _, _)
GroupNames(vids, info, names) ==
    IF vids = <<>> THEN names
    ELSE GroupNames(Tail(vids), info,
            IF info[Head(vids)] # NoMatch /\ info[Head(vids)].name \notin Range(names)
            THEN Append(names, info[Head(vids)].name)
            ELSE names)

\* series_groups[name].sort(key=(season, episode))
SortEpisodes(eps, info) ==
    LET Less(a, b) == EpisodeLess(info, a, b)
    IN  StableSort(eps, Less)

GroupsNamed(vids, info, names) ==
    Tuple([g \in 1..Len(names) |->
             LET InGroup(v) == info[v] # NoMatch /\ info[v].name = names[g]
             IN  SortEpisodes(SelectSeq(vids, InGroup), info)])

GroupsOf(vids, info) == GroupsNamed(vids, info, GroupNames(vids, info, <<>>))

_group_series_by_name(vids) == GroupsOf(vids, SeriesInfo)

\* a variant that stays on the last episode instead of wrapping
EpisodeAfter_NoWrap(eps, last_path) ==
    eps[IF (CHOOSE k \in 1..Len(eps) : eps[k] = last_path) < Len(eps)
        THEN (CHOOSE k \in 1..Len(eps) : eps[k] = last_path) + 1
        ELSE Len(eps)]

\* eps[(i + 1) % len(eps)], i being the zero-based index of last_path
EpisodeAfter(eps, last_path) ==
    eps[((CHOOSE k \in 1..Len(eps) : eps[k] = last_path) % Len(eps)) + 1]

\* the group that decides: the first, in dict order, that holds last_path
NextIn(series_groups, last_path, holders) ==
    IF holders = {} THEN NoVideo
    ELSE EpisodeAfter(series_groups[CHOOSE h \in holders : \A k \in holders : h <= k],
                      last_path)

\* the episode after last_path (lines 262-270); NoVideo when no group holds it
NextEpisode(series_groups, last_path) ==
    NextIn(series_groups, last_path,
           {g \in 1..Len(series_groups) : last_path \in Range(series_groups[g])})

(***************************************************************************)
(* Daily-Repeat Selector: _select_daily_movies.                            *)
(* daily_movies maps each feature category to its video, NoVideo when the  *)
(* category has no entry; entries are inserted in movie_categories order.  *)
(***************************************************************************)
NoDaily == [c \in {"serije", "dokumentarni", "deciji"} |-> NoVideo]

\* lines 272-275: the found episode, else the first episode of the first group
FoundOrFirst(found, series_groups) ==
    IF found # NoVideo THEN found ELSE series_groups[1][1]

SequentialFrom(last_path, series_groups) ==
    IF series_groups = <<>> THEN NoVideo
    ELSE FoundOrFirst(IF last_path # NoVideo THEN NextEpisode(series_groups, last_path)
                      ELSE NoVideo,
                      series_groups)

\* the sequential pick for "serije": NoVideo when the pool has no series group
SequentialPick(state, files) ==
    SequentialFrom(state.serije_last_episode_path, _group_series_by_name(files))

\* lines 277-282
RecordSequential(category, acc, seq_pick, now) ==
    [acc EXCEPT
        !.daily_selection[category] = seq_pick,
        !.state = _update_last_played(
                    [acc.state EXCEPT !.serije_last_episode_path = seq_pick],
                    seq_pick, now)]

\* lines 286-288
RecordPick(category, acc, old_daily, date_day, r) ==
    [state |-> r.state, videos |-> r.videos,
     daily_selection |->
        IF r.chosen # NoVideo
        THEN [acc.daily_selection EXCEPT ![category] = r.chosen]
        ELSE acc.daily_selection,
     calls |-> Append(acc.calls,
                  CallRecord(acc.state, old_daily, acc.videos, category, FALSE,
                             Midnight(date_day), r))]

SelectWith(category, acc, old_daily, date_day, now, recurrence_days, seq_pick) ==
    IF seq_pick # NoVideo THEN RecordSequential(category, acc, seq_pick, now)
    ELSE RecordPick(category, acc, old_daily, date_day,
            _get_next_video(acc.state, old_daily, acc.videos, category, FALSE,
                            Midnight(date_day), now, recurrence_days))

\* one pass of the loop body for a category; acc carries self.state, the videos
\* dict, the selection built so far and the selector calls made
SelectDailyFor(category, acc, old_daily, date_day, now, recurrence_days) ==
    IF GetList(acc.videos, category) = <<>> THEN acc
    ELSE SelectWith(category, acc, old_daily, date_day, now, recurrence_days,
            IF category = "serije"
            THEN SequentialPick(acc.state, GetList(acc.videos, category))
            ELSE NoVideo)

_select_daily_movies(state, old_daily, videos, date_day, now, recurrence_days) ==
    SelectDailyFor("deciji",
        SelectDailyFor("dokumentarni",
            SelectDailyFor("serije",
                [state |-> state, videos |-> videos, daily_selection |-> NoDaily,
                 calls |-> <<>>],
                old_daily, date_day, now, recurrence_days),
            old_daily, date_day, now, recurrence_days),
        old_daily, date_day, now, recurrence_days)

(***************************************************************************)
(* _find_spica and _find_psaltir_files.                                    *)
(***************************************************************************)
\* the (category, file) pairs of a videos dict in iteration order
RECURSIVE FlattenFrom(_, _)
FlattenFrom(videos, k) ==
    IF k > Len(videos.keys) THEN <<>>
    ELSE [i \in 1..Len(videos.lists[videos.keys[k]]) |->
              [cat |-> videos.keys[k], f |-> videos.lists[videos.keys[k]][i]]]
         \o FlattenFrom(videos, k + 1)

Flatten(videos) == FlattenFrom(videos, 1)

\* the test of lines 297-298 on lower-cased texts
IsSpicaFile(filename, cat, path, spica_file) ==
    /\ Contains(filename, spica_file) \/ Contains(filename, s_spica)
    /\ Contains(cat, s_spica) \/ Contains(path, s_spica)

FirstFile(hits) == IF hits = <<>> THEN NoVideo ELSE hits[1].f

LastFile(hits) == IF hits = <<>> THEN NoVideo ELSE hits[Len(hits)].f

_find_spica(videos, spica_file) ==
    LET IsSpica(e) == IsSpicaFile(Lower(Files[e.f].filename), Lower(CatText[e.cat]),
                                  Lower(PathText(e.f)), Lower(spica_file))
    IN  FirstFile(SelectSeq(Flatten(videos), IsSpica))

\* the tests of lines 309-315 on lower-cased texts
IsPsaltir01(cat, fname) == Contains(cat, s_psaltir) /\ Contains(fname, s_psaltir_01)

IsPsaltir02(cat, fname) ==
    /\ Contains(cat, s_psaltir)
    /\ ~Contains(fname, s_psaltir_01)
    /\ Contains(fname, s_psaltir_02)

\* the last file, in iteration order, whose name holds the marker
PsaltirAmong(all) ==
    LET Is01(e) == IsPsaltir01(Lower(CatText[e.cat]), Lower(Files[e.f].filename))
        Is02(e) == IsPsaltir02(Lower(CatText[e.cat]), Lower(Files[e.f].filename))
    IN  [p01 |-> LastFile(SelectSeq(all, Is01)), p02 |-> LastFile(SelectSeq(all, Is02))]

_find_psaltir_files(videos) == PsaltirAmong(Flatten(videos))

\* _should_play_movie
_should_play_movie(hour) ==
    (12 <= hour /\ hour < 14) \/ (16 <= hour /\ hour < 18) \/ (20 <= hour /\ hour < 22)

(***************************************************************************)
(* Configuration (app/core/config.py and PlaylistGenerator.__init__).      *)
(***************************************************************************)
\* Settings.fixed_slots: "HH:MM:SS" -> category, in definition order
DefaultFixedSlots == <<
    [time |-> <<6, 0, 0>>,   cat |-> "psaltir"],
    [time |-> <<7, 14, 0>>,  cat |-> "molitve"],
    [time |-> <<13, 0, 0>>,  cat |-> "serije"],
    [time |-> <<18, 0, 0>>,  cat |-> "molitve"],
    [time |-> <<19, 0, 0>>,  cat |-> "deciji"],
    [time |-> <<20, 0, 0>>,  cat |-> "serije"],
    [time |-> <<22, 24, 0>>, cat |-> "psaltir"],
    [time |-> <<23, 0, 0>>,  cat |-> "serije"] >>

\* Settings.filler_categories
DefaultFillerCategories == [k \in {"15min", "30min"} |-> k]

DefaultTargetDurationHours == 23
DefaultRecurrenceDays == 10

DefaultConfig ==
    [fixed_slots |-> DefaultFixedSlots,
     spica_after_every_item |-> TRUE,
     spica_file |-> s_SPICA_BlagovestiTV,
     strict_fixed_slots |-> FALSE,
     target_duration_hours |-> DefaultTargetDurationHours,
     recurrence_days |-> DefaultRecurrenceDays,
     filler_categories |-> DefaultFillerCategories]

\* a short exclusion window, so that items become eligible again within the
\* dates the model covers
ShortRecurrenceDays == 1

StrictConfig ==
    [DefaultConfig EXCEPT !.strict_fixed_slots = TRUE,
                          !.recurrence_days = ShortRecurrenceDays]

\* a configuration whose filler tiers name categories the scan produces
RemappedFillerCategories ==
    [k \in {"15min", "30min"} |-> IF k = "15min" THEN "ostalo" ELSE "muzika"]

RemappedConfig ==
    [StrictConfig EXCEPT !.filler_categories = RemappedFillerCategories]

PlainConfig ==
    [DefaultConfig EXCEPT !.spica_after_every_item = FALSE,
                          !.recurrence_days = ShortRecurrenceDays]

\* a fixed-slot table that is not in time order at definition time: a slot
\* before day-start, a slot of a category without items, a 'psaltir' slot
ShuffledFixedSlots == <<
    [time |-> <<9, 0, 0>>,  cat |-> "putopisi"],
    [time |-> <<2, 0, 0>>,  cat |-> "muzika"],
    [time |-> <<6, 0, 0>>,  cat |-> "psaltir"],
    [time |-> <<7, 10, 0>>, cat |-> "muzika"] >>

\* a short programming day, in strict mode
ShortTargetDurationHours == 12

ShortDayConfig ==
    [StrictConfig EXCEPT !.fixed_slots = ShuffledFixedSlots,
                         !.target_duration_hours = ShortTargetDurationHours]

(***************************************************************************)
(* Bounds of the model.                                                    *)
(***************************************************************************)
NumEngines == 1        \* PlaylistGenerator objects
MaxRuns == 3           \* generation calls in one behaviour
MaxDay == 1            \* target dates are the days 0..MaxDay
MaxTemplateRuns == 2   \* generation calls in one behaviour with template replay

Engines == 1..NumEngines
Dates == 0..MaxDay
Dirs == {"A", "B"}     \* output directories, each with its own state file

\* the wall-clock readings datetime.now() can return
NowValues == {[day |-> 0, sec |-> 36000], [day |-> MaxDay + 1, sec |-> 36000]}

\* the contents of the media directory
AllFiles == FileIds \ {f_zora}
FeatureOnlyFiles == {f_dok_a, f_dok_b, f_show_e01, f_show_e02}
\* no identifier, no morning anchor, a single episode
SparseFiles == AllFiles \ {f_zeta, f_spica, f_psaltir01, f_show_e02}
\* both anchors, the identifier and one concert
AnchorFiles == {f_psaltir01, f_psaltir02, f_koncert, f_spica}
\* two folders that map to 'serije': Filmovi, scanned first, holds the series
\* Zora; Serije holds Show and Zeta
TwoFolderFiles == {f_zora, f_show_e01, f_zeta}

\* .playlist_state.json: absent, or a file of one of these kinds:
\*   "state"   a JSON object; content is the state it holds
\*   "garbage" unreadable, or not valid JSON
\*   "array"   valid JSON that is not an object: []
\*   "badmap"  the JSON object {"last_played": []}
\* writes counts the times _save_state has written the file
NoFile == [exists |-> FALSE, kind |-> "state", content |-> EmptyState, writes |-> 0]

\* a state file an earlier day left behind: yesterday's feature episode was
\* Show_S01E02, stamped with the wall clock; other items carry target dates
SeededState ==
    [last_played |->
        Table([p \in {f_show_e01, f_show_e02, f_zeta, f_dok_b, f_jutarnja} |->
                 IF p = f_show_e02 THEN isoformat([day |-> 1, sec |-> 36000])
                 ELSE IF p = f_zeta THEN isoformat(Midnight(1))
                 ELSE isoformat(Midnight(0))]),
     serije_last_episode_path |-> f_show_e02]

SeededFile == [exists |-> TRUE, kind |-> "state", content |-> SeededState, writes |-> 0]

GarbageFile == [exists |-> TRUE, kind |-> "garbage", content |-> EmptyState, writes |-> 0]

ArrayFile == [exists |-> TRUE, kind |-> "array", content |-> EmptyState, writes |-> 0]

\* the state {"last_played": []}: its last_played value is a list, not a map
BadMapState == [last_played_is_map |-> FALSE]

BadMapFile == [exists |-> TRUE, kind |-> "badmap", content |-> BadMapState, writes |-> 0]


\* the installations the model covers: the media directory, the configuration
\* and the state file found in the output directories at the start
Installations ==
    { [fs |-> AllFiles, config |-> DefaultConfig, file |-> NoFile],
      [fs |-> AllFiles, config |-> StrictConfig, file |-> NoFile],
      [fs |-> AllFiles, config |-> StrictConfig, file |-> SeededFile],
      [fs |-> SparseFiles, config |-> RemappedConfig, file |-> NoFile],
      [fs |-> FeatureOnlyFiles, config |-> PlainConfig, file |-> SeededFile],
      [fs |-> AnchorFiles, config |-> ShortDayConfig, file |-> GarbageFile],
      [fs |-> AnchorFiles, config |-> ShortDayConfig, file |-> ArrayFile],
      [fs |-> FeatureOnlyFiles, config |-> PlainConfig, file |-> BadMapFile],
      [fs |-> TwoFolderFiles, config |-> PlainConfig, file |-> NoFile],
      [fs |-> TwoFolderFiles, config |-> PlainConfig, file |-> SeededFile] }

\* the template files given to generate_playlist_from_template: readable is
\* FALSE for a file that is missing or does not parse; is_object is FALSE for
\* valid JSON that is not an object; channel is the empty string when the
\* template has no "channel" key
MissingTemplate ==
    [readable |-> FALSE, is_object |-> FALSE, channel |-> "", program |-> <<>>]

\* a template file holding the JSON text []
ArrayTemplate ==
    [readable |-> TRUE, is_object |-> FALSE, channel |-> "", program |-> <<>>]

Day0Template ==
    [readable |-> TRUE, is_object |-> TRUE, channel |-> "Day0",
     program |-> <<
        [source |-> <<"/","t","/","M","o","l","i","t","v","e","/","s","t","a","r","a","_","m","o","l","i","t","v","a",".","m","p","4">>, duration |-> 1800],
        [source |-> <<"/","t","/","s","p","i","c","a","/","S","P","I","C","A","_","B","l","a","g","o","v","e","s","t","i","T","V",".","m","p","4">>, duration |-> 30],
        [source |-> <<"/","t","/","M","u","z","i","k","a","/","s","t","a","r","i","_","k","o","n","c","e","r","t",".","m","p","4">>, duration |-> 9000],
        [source |-> <<"/","t","/","S","e","r","i","j","e","/","S","h","o","w","_","S","0","1","E","0","1",".","m","p","4">>, duration |-> 3000] >>]

OldTemplate ==
    [readable |-> TRUE, is_object |-> TRUE, channel |-> "",
     program |-> <<
        [source |-> <<"/","t","/","P","s","a","l","t","i","r","/","P","s","a","l","t","i","r","_","0","1",".","m","p","4">>, duration |-> 3600],
        [source |-> <<"/","t","/","O","s","t","a","l","o","/","S","P","I","C","A","_","n","a","j","a","v","a",".","m","p","4">>, duration |-> 30],
        [source |-> <<"/","t","/","N","e","p","o","z","n","a","t","o","/","p","r","i","l","o","g",".","m","p","4">>, duration |-> 1500],
        [source |-> <<"/","t","/","D","e","c","i","j","i","/","c","r","t","a","n","i","_","0","0",".","m","p","4">>, duration |-> 3300],
        [source |-> <<"/","t","/","M","o","l","i","t","v","e","/","k","r","a","t","k","a",".","m","p","4">>, duration |-> 600] >>]

\* a template whose slots are longer than the only children's film (3000 s)
\* by 599, 600, 1300 and 1301 seconds
GapTemplate ==
    [readable |-> TRUE, is_object |-> TRUE, channel |-> "Gaps",
     program |-> <<
        [source |-> <<"/","t","/","D","e","c","i","j","i","/","c","r","t","a","n","i","_","0","0",".","m","p","4">>, duration |-> 3599],
        [source |-> <<"/","t","/","D","e","c","i","j","i","/","c","r","t","a","n","i","_","0","0",".","m","p","4">>, duration |-> 3600],
        [source |-> <<"/","t","/","D","e","c","i","j","i","/","c","r","t","a","n","i","_","0","0",".","m","p","4">>, duration |-> 4300],
        [source |-> <<"/","t","/","D","e","c","i","j","i","/","c","r","t","a","n","i","_","0","0",".","m","p","4">>, duration |-> 4301] >>]

Templates == {MissingTemplate, ArrayTemplate, Day0Template, OldTemplate, GapTemplate}

(***************************************************************************)
(* State of the system.                                                    *)
(***************************************************************************)
VARIABLES
    fs,            \* the video files present in the media directory
    config,        \* the configuration the engines are constructed with
    disk,          \* per output directory: the file .playlist_state.json
    pc,            \* per engine: "none", "idle", "loop" (in generate_playlist's
                   \* while loop), "replay" (in the template loop) or "raised"
                   \* (the call ended with an exception)
    out_dir,       \* per engine: self.output_dir
    state,         \* per engine: self.state
    daily_movies,  \* per engine: self.daily_movies
    loc,           \* per engine: the local variables of the running call
    calls,         \* the _get_next_video calls made since the running call began
    runs           \* the generation calls completed so far

vars == <<fs, config, disk, pc, out_dir, state, daily_movies, loc, calls, runs>>

\* _load_state: json.load raises on a file that is not JSON, and
\* state["last_played"] = {} raises on a JSON array; both are caught
_load_state(file) ==
    IF ~file.exists THEN EmptyState
    ELSE IF file.kind \in {"garbage", "array"} THEN EmptyState
    ELSE file.content

\* a variant that leaves the file as it was
_save_state_Skipped(d, dir, st) == d

\* _save_state
_save_state(d, dir, st) ==
    [d EXCEPT ![dir] = [exists |-> TRUE, kind |-> "state", content |-> st,
                        writes |-> @.writes + 1]]

\* self.state["last_played"] is a map (a dict)
WellFormed(st) == "last_played" \in DOMAIN st

DayStart == 6 * 3600          \* "06:00:00"
SkipSeconds == 15 * 60        \* timedelta(minutes=15)
NightAnchorAfter == 17 * 3600 \* time_since_start > 17 * 3600
MaxPlays == 3                 \* movie_play_count[...] < 3

\* cursor.hour, the cursor being seconds since midnight of the target date
HourOf(cursor) == (cursor \div 3600) % 24

\* a ProgramItem
ItemOf(p, dur) == [in |-> 0, out |-> dur, duration |-> dur, source |-> p]

Item(p) == ItemOf(p, Files[p].duration)

IdleLoc ==
    [mode |-> "", date |-> -1, now |-> NoDate, start_state |-> EmptyState,
     videos |-> EmptyVideos, category_videos |-> EmptyVideos,
     spica_info |-> NoVideo, psaltir_files |-> [p01 |-> NoVideo, p02 |-> NoVideo],
     day_end |-> 0, program |-> <<>>, cursor |-> 0,
     fixed_schedule |-> <<>>, fill_categories |-> <<>>, fill_idx |-> 0, fixed_idx |-> 0,
     movie_play_count |-> [c \in {"serije", "dokumentarni", "deciji"} |-> 0],
     last_movie_hour |-> [c \in {"serije", "dokumentarni", "deciji"} |-> -1],
     psaltir_02_played |-> FALSE,
     template |-> <<>>, channel |-> "", item_idx |-> 0, slots |-> <<>>,
     disk_before |-> NoFile,    \* the state file when the call began
     handled |-> <<>>,          \* the fixed slots handled so far
     aired |-> <<>>,            \* the emissions of the day-part window rule so far
     fills |-> <<>>,            \* the steps of the round-robin fill so far
     jumped |-> 0,              \* seconds the cursor moved without an item
     written |-> 0,             \* of a running save: the blocks written so far
     cause |-> ""]              \* of a raised call: the exception's origin

\* the category map of generate_playlist (lines 356-369)
RECURSIVE BuildCategoryVideos(_, _, _)
BuildCategoryVideos(videos, k, cv) ==
    IF k > Len(videos.keys) THEN cv
    ELSE BuildCategoryVideos(videos, k + 1,
            IF \/ _is_spica_category(CatText[videos.keys[k]])
               \/ _map_folder_to_category(CatText[videos.keys[k]]) = "psaltir"
            THEN cv
            ELSE Extend(cv, _map_folder_to_category(CatText[videos.keys[k]]),
                        videos.lists[videos.keys[k]]))

\* datetime.strptime(time_str, "%H:%M:%S") succeeds
ValidTime(t) == t[1] \in 0..23 /\ t[2] \in 0..59 /\ t[3] \in 0..61

\* the time of day in seconds; a time before day_start is moved to the next day
SlotSeconds(secs) == IF secs < DayStart THEN secs + 86400 ELSE secs

SlotTime(t) == SlotSeconds(t[1] * 3600 + t[2] * 60 + t[3])

\* the slots left in the order they were configured in
SortSlots_Unsorted(timed) == timed

\* fixed_schedule.sort(key=lambda x: x[0])
SortSlots(timed) ==
    LET Earlier(a, b) == a.time < b.time
    IN  StableSort(timed, Earlier)

TimedSlots(kept) ==
    Tuple([i \in 1..Len(kept) |-> [time |-> SlotTime(kept[i].time), cat |-> kept[i].cat]])

\* the fixed schedule of generate_playlist (lines 396-407): seconds since
\* midnight of the target date, ascending
FixedSchedule(fixed_slots) ==
    LET Kept(sl) == sl.cat # "psaltir" /\ ValidTime(sl.time)
    IN  SortSlots(TimedSlots(SelectSeq(fixed_slots, Kept)))

\* the categories of a set in the order of a sorted list of their texts
InTextOrder(ks, texts) ==
    Tuple([i \in 1..Len(texts) |-> CHOOSE c \in ks : CatText[c] = texts[i]])

SortedCategories(ks) == InTextOrder(ks, SortedNames({CatText[c] : c \in ks}))

\* sorted(category_videos.keys()) without the feature categories (lines 409-410)
FillCategories(category_videos) ==
    SortedCategories({c \in Range(category_videos.keys) :
                        c \notin {"serije", "dokumentarni", "deciji"}})

\* a variant that appends the item and leaves the cursor where it was
Emit_Frozen(l, p) == [l EXCEPT !.program = Append(@, Item(p))]

\* append an item, advance the cursor by its duration
Emit(l, p) ==
    [l EXCEPT !.program = Append(@, Item(p)), !.cursor = @ + Files[p].duration]

\* "if self.spica_after_every_item and spica_info": append the identifier
EmitSpica(l) ==
    IF config.spica_after_every_item /\ l.spica_info # NoVideo
    THEN Emit(l, l.spica_info)
    ELSE l

\* "if vid:" append it and the identifier
EmitIf(l, vid) == IF vid # NoVideo THEN EmitSpica(Emit(l, vid)) ELSE l

(***************************************************************************)
(* Initial state: no engine constructed, no state file written.            *)
(***************************************************************************)
Init ==
    /\ \E inst \in Installations :
          /\ fs = inst.fs
          /\ config = inst.config
          /\ disk = [d \in Dirs |-> inst.file]
    /\ pc = [g \in Engines |-> "none"]
    /\ out_dir = [g \in Engines |-> "A"]
    /\ state = [g \in Engines |-> EmptyState]
    /\ daily_movies = [g \in Engines |-> NoDaily]
    /\ loc = [g \in Engines |-> IdleLoc]
    /\ calls = <<>>
    /\ runs = <<>>

\* no generation call is in progress (calls run one at a time)
Quiet == \A g \in Engines : pc[g] \in {"none", "idle", "raised"}

(***************************************************************************)
(* PlaylistGenerator.__init__                                              *)
(***************************************************************************)
Construct(g, dir) ==
    /\ Quiet
    /\ Len(runs) < MaxRuns
    /\ pc' = [pc EXCEPT ![g] = "idle"]
    /\ out_dir' = [out_dir EXCEPT ![g] = dir]
    /\ state' = [state EXCEPT ![g] = _load_state(disk[dir])]
    /\ daily_movies' = [daily_movies EXCEPT ![g] = NoDaily]
    /\ loc' = [loc EXCEPT ![g] = IdleLoc]
    /\ calls' = <<>>
    /\ UNCHANGED <<fs, config, disk, runs>>

(***************************************************************************)
(* generate_playlist, up to the while loop (lines 340-418).                *)
(***************************************************************************)
\* the morning anchor with no identifier after it
PrependPsaltir01_NoSpica(l) ==
    IF l.psaltir_files.p01 # NoVideo THEN Emit(l, l.psaltir_files.p01) ELSE l

\* lines 376-390: the morning anchor and the identifier after it
PrependPsaltir01(l) ==
    IF l.psaltir_files.p01 # NoVideo
    THEN EmitSpica(Emit(l, l.psaltir_files.p01))
    ELSE l

BeginMapped(g, date, now, spica_info, psaltir_files, sel, category_videos) ==
    [loc |-> PrependPsaltir01(
                [IdleLoc EXCEPT
                    !.mode = "standard", !.date = date, !.now = now,
                    !.start_state = state[g], !.disk_before = disk[out_dir[g]],
                    !.videos = sel.videos, !.category_videos = category_videos,
                    !.spica_info = spica_info, !.psaltir_files = psaltir_files,
                    !.day_end = DayStart + config.target_duration_hours * 3600,
                    !.cursor = DayStart,
                    !.fixed_schedule = FixedSchedule(config.fixed_slots),
                    !.fill_categories = FillCategories(category_videos)]),
     state |-> sel.state,
     daily_movies |-> sel.daily_selection,
     calls |-> sel.calls]

BeginSelected(g, date, now, spica_info, psaltir_files, sel) ==
    BeginMapped(g, date, now, spica_info, psaltir_files, sel,
                BuildCategoryVideos(sel.videos, 1, EmptyVideos))

BeginScanned(g, date, now, videos) ==
    BeginSelected(g, date, now, _find_spica(videos, config.spica_file),
                  _find_psaltir_files(videos),
                  _select_daily_movies(state[g], daily_movies[g], videos, date, now,
                                       config.recurrence_days))

BeginGenerate(g, date, now) == BeginScanned(g, date, now, _scan_videos(fs))

\* enter the while loop with the locals b computed
EnterLoop(g, b) ==
    /\ loc' = [loc EXCEPT ![g] = b.loc]
    /\ state' = [state EXCEPT ![g] = b.state]
    /\ daily_movies' = [daily_movies EXCEPT ![g] = b.daily_movies]
    /\ calls' = b.calls
    /\ pc' = [pc EXCEPT ![g] = "loop"]

GenerateStart(g, date, now) ==
    /\ Quiet
    /\ pc[g] = "idle"
    /\ Len(runs) < MaxRuns
    /\ WellFormed(state[g])
    /\ EnterLoop(g, BeginGenerate(g, date, now))
    /\ UNCHANGED <<fs, config, disk, out_dir, runs>>

\* the scan holds an item of a feature category: _select_daily_movies picks
HasFeatureFiles(videos) ==
    \E c \in Range(movie_categories) : GetList(videos, c) # <<>>

\* the call ends with an exception
Raise(g, cause) ==
    /\ pc' = [pc EXCEPT ![g] = "raised"]
    /\ loc' = [loc EXCEPT ![g] = [IdleLoc EXCEPT !.cause = cause]]
    /\ UNCHANGED <<fs, config, disk, out_dir, state, daily_movies, calls, runs>>

\* generate_playlist on a state whose last_played is a list: the first pick of
\* _select_daily_movies ends in _update_last_played (line 68), where
\* self.state["last_played"][filepath] = ... raises TypeError.  (Without an
\* item of a feature category the first pick comes later, in the loop; no
\* installation of the model pairs such a state with such a scan.)
GenerateRaises(g) ==
    /\ Quiet
    /\ pc[g] = "idle"
    /\ ~WellFormed(state[g])
    /\ HasFeatureFiles(_scan_videos(fs))
    /\ Raise(g, "state")

(***************************************************************************)
(* The while loop of generate_playlist (lines 420-512): one action per     *)
(* rule, guarded by the rules before it not applying.                      *)
(***************************************************************************)
InLoop(g) == pc[g] = "loop" /\ loc[g].cursor < loc[g].day_end

NightDue(l) ==
    /\ ~l.psaltir_02_played
    /\ l.psaltir_files.p02 # NoVideo
    /\ (l.cursor - DayStart) > NightAnchorAfter

SlotPending(l) == config.strict_fixed_slots /\ l.fixed_idx < Len(l.fixed_schedule)

NextSlot(l) == l.fixed_schedule[l.fixed_idx + 1]

SlotDue(l) == SlotPending(l) /\ l.cursor >= NextSlot(l).time

SlotImminent(l) ==
    /\ SlotPending(l)
    /\ l.cursor < NextSlot(l).time
    /\ NextSlot(l).time < l.cursor + SkipSeconds

\* the feature categories the day-part rule may emit now, in dict order
MovieReady(l, dm) ==
    LET Ready(cat) == /\ dm[cat] # NoVideo
                      /\ HourOf(l.cursor) # l.last_movie_hour[cat]
                      /\ l.movie_play_count[cat] < MaxPlays
    IN  SelectSeq(movie_categories, Ready)

MovieDue(l, dm) == _should_play_movie(HourOf(l.cursor)) /\ MovieReady(l, dm) # <<>>

\* Psaltir 02 (lines 427-447)
NightAnchor(g) ==
    /\ InLoop(g)
    /\ NightDue(loc[g])
    /\ loc' = [loc EXCEPT ![g] =
                 EmitSpica([Emit(loc[g], loc[g].psaltir_files.p02)
                               EXCEPT !.psaltir_02_played = TRUE])]
    /\ UNCHANGED <<fs, config, disk, pc, out_dir, state, daily_movies, calls, runs>>

\* "slot_cat in self.daily_movies and movie_play_count.get(slot_cat, 0) < 3"
SlotFeature(l, dm, slot_cat) ==
    HasDaily(dm, slot_cat) /\ l.movie_play_count[slot_cat] < MaxPlays

\* the record of a handled slot: the slot, the cursor it was handled at, the
\* place of its item in the program and the item (NoVideo when there is none)
HandledSlot(l, vid) ==
    [idx |-> l.fixed_idx + 1, time |-> NextSlot(l).time, cat |-> NextSlot(l).cat,
     cursor |-> l.cursor, at |-> Len(l.program), vid |-> vid]

\* lines 455-457, 461-469: the slot plays the day's feature item
PlayFeature(l, dm, slot_cat) ==
    [EmitIf([l EXCEPT !.movie_play_count[slot_cat] = @ + 1], dm[slot_cat])
        EXCEPT !.fixed_idx = @ + 1,
               !.handled = Append(@, HandledSlot(l, dm[slot_cat]))]

\* a slot handler that leaves the slot pointer where it is when there is no item
PlayPick_Stalled(l, r) ==
    IF r.chosen = NoVideo THEN [l EXCEPT !.category_videos = r.videos]
    ELSE [EmitIf([l EXCEPT !.category_videos = r.videos], r.chosen)
             EXCEPT !.fixed_idx = @ + 1,
                    !.handled = Append(@, [idx |-> l.fixed_idx + 1,
                                           time |-> l.fixed_schedule[l.fixed_idx + 1].time,
                                           cat |-> l.fixed_schedule[l.fixed_idx + 1].cat,
                                           cursor |-> l.cursor, at |-> Len(l.program),
                                           vid |-> r.chosen])]

\* lines 459, 461-469: the slot plays the selector's pick r
PlayPick(l, r) ==
    [EmitIf([l EXCEPT !.category_videos = r.videos], r.chosen)
        EXCEPT !.fixed_idx = @ + 1,
               !.handled = Append(@, HandledSlot(l, r.chosen))]

SlotPick(g, slot_cat, r) ==
    /\ loc' = [loc EXCEPT ![g] = PlayPick(loc[g], r)]
    /\ state' = [state EXCEPT ![g] = r.state]
    /\ calls' = Append(calls, CallRecord(state[g], daily_movies[g], loc[g].category_videos,
                                         slot_cat, TRUE, Midnight(loc[g].date), r))

SlotPlay(g, slot_cat) ==
    IF SlotFeature(loc[g], daily_movies[g], slot_cat)
    THEN /\ loc' = [loc EXCEPT ![g] = PlayFeature(loc[g], daily_movies[g], slot_cat)]
         /\ UNCHANGED <<state, calls>>
    ELSE \E r \in {_get_next_video(state[g], daily_movies[g], loc[g].category_videos,
                                   slot_cat, TRUE, Midnight(loc[g].date), loc[g].now,
                                   config.recurrence_days)} :
            SlotPick(g, slot_cat, r)

\* a due fixed slot (lines 450-470)
FixedSlot(g) ==
    /\ InLoop(g)
    /\ ~NightDue(loc[g])
    /\ SlotDue(loc[g])
    /\ SlotPlay(g, NextSlot(loc[g]).cat)
    /\ UNCHANGED <<fs, config, disk, pc, out_dir, daily_movies, runs>>

\* a fixed slot less than 15 minutes ahead (lines 471-473)
FastForward(g) ==
    /\ InLoop(g)
    /\ ~NightDue(loc[g])
    /\ SlotImminent(loc[g])
    /\ loc' = [loc EXCEPT ![g].cursor = NextSlot(loc[g]).time,
                           ![g].jumped = @ + (NextSlot(loc[g]).time - loc[g].cursor)]
    /\ UNCHANGED <<fs, config, disk, pc, out_dir, state, daily_movies, calls, runs>>

\* lines 483-484, after the cursor has advanced
MarkPlayed(l, cat) ==
    [l EXCEPT !.last_movie_hour[cat] = HourOf(l.cursor),
              !.movie_play_count[cat] = @ + 1]

\* the record of an emission of the day-part rule: the category, the item
\* and the cursor the item starts at
AiredMovie(l, dm, cat) == [cat |-> cat, vid |-> dm[cat], cursor |-> l.cursor]

\* lines 480-489 for the first ready category
PlayMovie(l, dm, cat) ==
    EmitSpica(MarkPlayed(Emit([l EXCEPT !.aired = Append(@, AiredMovie(l, dm, cat))],
                              dm[cat]), cat))

\* the day-part window rule (lines 476-494)
DailyMovie(g) ==
    /\ InLoop(g)
    /\ ~NightDue(loc[g])
    /\ ~SlotDue(loc[g]) /\ ~SlotImminent(loc[g])
    /\ MovieDue(loc[g], daily_movies[g])
    /\ loc' = [loc EXCEPT ![g] =
                 PlayMovie(loc[g], daily_movies[g], MovieReady(loc[g], daily_movies[g])[1])]
    /\ UNCHANGED <<fs, config, disk, pc, out_dir, state, daily_movies, calls, runs>>

\* a rotation that stays on its first category
FillCategory_First(l) == l.fill_categories[1]

\* fill_categories[fill_idx % len(fill_categories)]
FillCategory(l) == l.fill_categories[(l.fill_idx % Len(l.fill_categories)) + 1]

\* the record of a fill step: the category requested and the item returned
FillStep(l, r) == [cat |-> FillCategory(l), vid |-> r.chosen]

\* lines 499-510 with the selector's answer r
FillWith(l, r) ==
    IF r.chosen # NoVideo
    THEN EmitSpica(Emit([l EXCEPT !.fill_idx = @ + 1, !.category_videos = r.videos,
                                  !.fills = Append(@, FillStep(l, r))],
                        r.chosen))
    ELSE [l EXCEPT !.fill_idx = @ + 1, !.category_videos = r.videos,
                   !.fills = Append(@, FillStep(l, r)),
                   !.cursor = @ + SkipSeconds, !.jumped = @ + SkipSeconds]

FillPick(g, cat, r) ==
    /\ loc' = [loc EXCEPT ![g] = FillWith(loc[g], r)]
    /\ state' = [state EXCEPT ![g] = r.state]
    /\ calls' = Append(calls, CallRecord(state[g], daily_movies[g], loc[g].category_videos,
                                         cat, TRUE, Midnight(loc[g].date), r))

\* round-robin fill (lines 497-510)
Fill(g) ==
    /\ InLoop(g)
    /\ ~NightDue(loc[g])
    /\ ~SlotDue(loc[g]) /\ ~SlotImminent(loc[g])
    /\ ~MovieDue(loc[g], daily_movies[g])
    /\ loc[g].fill_categories # <<>>
    /\ \E r \in {_get_next_video(state[g], daily_movies[g], loc[g].category_videos,
                                 FillCategory(loc[g]), TRUE, Midnight(loc[g].date),
                                 loc[g].now, config.recurrence_days)} :
          FillPick(g, FillCategory(loc[g]), r)
    /\ UNCHANGED <<fs, config, disk, pc, out_dir, daily_movies, runs>>

\* the locals of the scheduling loop when it is left
ExitOf(l) ==
    [cursor |-> l.cursor, day_end |-> l.day_end, fill_categories |-> l.fill_categories,
     psaltir_files |-> l.psaltir_files, psaltir_02_played |-> l.psaltir_02_played,
     fixed_idx |-> l.fixed_idx, fixed_schedule |-> l.fixed_schedule,
     movie_play_count |-> l.movie_play_count, handled |-> l.handled,
     spica_info |-> l.spica_info, aired |-> l.aired, fills |-> l.fills,
     jumped |-> l.jumped]

\* _save_state and return (lines 514-519, 649-654)
Finish(g, channel, program) ==
    /\ disk' = _save_state(disk, out_dir[g], state[g])
    /\ runs' = Append(runs,
                  [engine |-> g, dir |-> out_dir[g], channel |-> channel, mode |-> loc[g].mode,
                   date |-> loc[g].date, now |-> loc[g].now,
                   start_state |-> loc[g].start_state, slots |-> loc[g].slots,
                   end_state |-> state[g], daily |-> daily_movies[g],
                   program |-> program,
                   disk_before |-> loc[g].disk_before,
                   disk_after |-> _save_state(disk, out_dir[g], state[g])[out_dir[g]],
                   exit |-> ExitOf(loc[g])])
    /\ pc' = [pc EXCEPT ![g] = "idle"]
    /\ loc' = [loc EXCEPT ![g] = IdleLoc]
    /\ calls' = <<>>
    /\ UNCHANGED <<fs, config, out_dir, state, daily_movies>>

\* nothing left to fill with: break (lines 511-512)
BreakLoop(g) ==
    /\ InLoop(g)
    /\ ~NightDue(loc[g])
    /\ ~SlotDue(loc[g]) /\ ~SlotImminent(loc[g])
    /\ ~MovieDue(loc[g], daily_movies[g])
    /\ loc[g].fill_categories = <<>>
    /\ Finish(g, "Channel 1", loc[g].program)

\* the loop condition fails (line 420)
ExitLoop(g) ==
    /\ pc[g] = "loop"
    /\ loc[g].cursor >= loc[g].day_end
    /\ Finish(g, "Channel 1", loc[g].program)

Next ==
    \/ \E g \in Engines, dir \in Dirs : Construct(g, dir)
    \/ \E g \in Engines, date \in Dates, now \in NowValues : GenerateStart(g, date, now)
    \/ \E g \in Engines : GenerateRaises(g)
    \/ \E g \in Engines : NightAnchor(g)
    \/ \E g \in Engines : FixedSlot(g)
    \/ \E g \in Engines : FastForward(g)
    \/ \E g \in Engines : DailyMovie(g)
    \/ \E g \in Engines : Fill(g)
    \/ \E g \in Engines : BreakLoop(g)
    \/ \E g \in Engines : ExitLoop(g)

Spec == Init /\ [][Next]_vars

\* one iteration of the while loop of a running call, or leaving it
LoopStep(g) ==
    \/ NightAnchor(g)
    \/ FixedSlot(g)
    \/ FastForward(g)
    \/ DailyMovie(g)
    \/ Fill(g)
    \/ BreakLoop(g)
    \/ ExitLoop(g)

\* a call of generate_playlist runs its loop sequentially to the end: an
\* enabled iteration is eventually executed
MaxLiveRuns == 1       \* generation calls in one behaviour checked for termination

\* the steps of Next in behaviours of at most MaxLiveRuns calls
NextLive ==
    \/ \E g \in Engines, dir \in Dirs : Len(runs) < MaxLiveRuns /\ Construct(g, dir)
    \/ \E g \in Engines, date \in Dates, now \in NowValues :
          Len(runs) < MaxLiveRuns /\ GenerateStart(g, date, now)
    \/ \E g \in Engines : GenerateRaises(g)
    \/ \E g \in Engines : LoopStep(g)

SpecLive == Init /\ [][NextLive]_vars /\ \A g \in Engines : WF_vars(LoopStep(g))

(***************************************************************************)
(* Template replay: _get_filler_video and generate_playlist_from_template. *)
(***************************************************************************)
NoCategory == ""       \* Python None where a category name is expected

\* self.filler_categories.get(key)
FillerCategory(filler_categories, key) ==
    IF key \in DOMAIN filler_categories THEN filler_categories[key] ELSE NoCategory

FillerShortMin == 600
FillerShortMax == 1300

\* a variant whose short tier ends below FillerShortMax
FillerTarget_Exclusive(filler_categories, gap_duration) ==
    IF FillerShortMin <= gap_duration /\ gap_duration < FillerShortMax
    THEN FillerCategory(filler_categories, "15min")
    ELSE IF gap_duration >= FillerShortMax
    THEN FillerCategory(filler_categories, "30min")
    ELSE NoCategory

\* target_cat of _get_filler_video (lines 531-535)
FillerTarget(filler_categories, gap_duration) ==
    IF FillerShortMin <= gap_duration /\ gap_duration <= FillerShortMax
    THEN FillerCategory(filler_categories, "15min")
    ELSE IF gap_duration > FillerShortMax
    THEN FillerCategory(filler_categories, "30min")
    ELSE NoCategory

\* the selector's answer with the category that was asked for
Asked(target_cat, r) ==
    [asked |-> target_cat, chosen |-> r.chosen, state |-> r.state, videos |-> r.videos]

FillerFrom(st, daily, videos, target_cat, date_obj, now, recurrence_days) ==
    IF target_cat # NoCategory
    THEN Asked(target_cat,
               _get_next_video(st, daily, videos, target_cat, TRUE, date_obj, now,
                               recurrence_days))
    ELSE [asked |-> NoCategory, chosen |-> NoVideo, state |-> st, videos |-> videos]

\* _get_filler_video
_get_filler_video(st, daily, videos, gap_duration, date_obj, now, filler_categories, recurrence_days) ==
    FillerFrom(st, daily, videos, FillerTarget(filler_categories, gap_duration),
               date_obj, now, recurrence_days)

\* "if gap > 0: filler = self._get_filler_video(...)" after the fresh pick r
GapFiller(r, daily, gap, date_obj, now, filler_categories, recurrence_days) ==
    IF gap > 0
    THEN _get_filler_video(r.state, daily, r.videos, gap, date_obj, now, filler_categories,
                           recurrence_days)
    ELSE [asked |-> NoCategory, chosen |-> NoVideo, state |-> r.state, videos |-> r.videos]

\* os.path.basename(os.path.dirname(original_source))
FolderName(original_source) == Basename(Dirname(original_source))

\* the identifier test of the template loop (line 598)
IsSpicaSlot(original_source) ==
    \/ _is_spica_category(FolderName(original_source))
    \/ Contains(Basename(original_source), s_SPICA)

\* a replay that emits nothing
AppendIf_Dropped(program, vid) == program

\* new_program.append(...) when the video exists
AppendIf(program, vid) == IF vid # NoVideo THEN Append(program, Item(vid)) ELSE program

\* the locals of a template replay at the loop's start (lines 550-582)
BeginReplay(g, tpl, date, now, videos) ==
    [IdleLoc EXCEPT
        !.mode = "template", !.date = date, !.now = now, !.start_state = state[g],
        !.disk_before = disk[out_dir[g]],
        !.videos = videos, !.spica_info = _find_spica(videos, config.spica_file),
        !.template = tpl.program,
        !.channel = IF tpl.channel # "" THEN tpl.channel ELSE "Channel 1"]

\* the fallback (line 563): generate_playlist(date)
Fallback(b) == [b EXCEPT !.loc.mode = "fallback"]

\* generate_playlist_from_template, up to the loop over the template
TemplateStart(g, tpl, date, now) ==
    /\ Quiet
    /\ pc[g] = "idle"
    /\ Len(runs) < MaxTemplateRuns
    /\ WellFormed(state[g])
    /\ tpl.readable => tpl.is_object
    /\ IF tpl.readable
       THEN /\ loc' = [loc EXCEPT ![g] = BeginReplay(g, tpl, date, now, _scan_videos(fs))]
            /\ pc' = [pc EXCEPT ![g] = "replay"]
            /\ calls' = <<>>
            /\ UNCHANGED <<state, daily_movies>>
       ELSE EnterLoop(g, Fallback(BeginGenerate(g, date, now)))
    /\ UNCHANGED <<fs, config, disk, out_dir, runs>>

\* the template has a slot that makes a pick: not an identifier slot, and
\* the scan holds an item of its category
HasContentSlot(tpl, videos) ==
    \E i \in DOMAIN tpl.program :
        /\ ~IsSpicaSlot(tpl.program[i].source)
        /\ GetList(videos, _map_folder_to_category(FolderName(tpl.program[i].source)))
              # <<>>

\* generate_playlist_from_template ends with an exception:
\*  - the template is valid JSON but no object: template_data.get (line 566)
\*    raises AttributeError outside the try block;
\*  - last_played is a list: the first pick raises TypeError in
\*    _update_last_played, in the replay or in the fallback run.
TemplateRaises(g, tpl) ==
    /\ Quiet
    /\ pc[g] = "idle"
    /\ \/ /\ tpl.readable /\ ~tpl.is_object
          /\ Raise(g, "template")
       \/ /\ tpl.readable /\ tpl.is_object
          /\ ~WellFormed(state[g])
          /\ HasContentSlot(tpl, _scan_videos(fs))
          /\ Raise(g, "state")
       \/ /\ ~tpl.readable
          /\ ~WellFormed(state[g])
          /\ HasFeatureFiles(_scan_videos(fs))
          /\ Raise(g, "state")

\* the slot holds the identifier (lines 598-607)
ReplaySpica(l) ==
    [l EXCEPT !.program = AppendIf(@, l.spica_info), !.item_idx = @ + 1,
              !.slots = Append(@, [at |-> Len(l.program), spica |-> TRUE,
                                   fresh |-> NoVideo, asked |-> NoCategory,
                                   filler |-> NoVideo])]

\* the slot's fresh pick r and its filler f (lines 621-641)
ReplayContent(l, r, f) ==
    [l EXCEPT !.program = AppendIf(AppendIf(@, r.chosen), f.chosen),
              !.videos = f.videos,
              !.item_idx = @ + 1,
              !.slots = Append(@, [at |-> Len(l.program), spica |-> FALSE,
                                   fresh |-> r.chosen, asked |-> f.asked,
                                   filler |-> f.chosen])]

FillerCalls(g, r, f) ==
    IF f.asked # NoCategory
    THEN <<CallRecord(r.state, daily_movies[g], r.videos, f.asked, TRUE,
                      Midnight(loc[g].date), f)>>
    ELSE <<>>

ReplayFilled(g, category, r, f) ==
    /\ loc' = [loc EXCEPT ![g] = ReplayContent(loc[g], r, f)]
    /\ state' = [state EXCEPT ![g] = f.state]
    /\ calls' = Append(calls, CallRecord(state[g], daily_movies[g], loc[g].videos, category,
                                         TRUE, Midnight(loc[g].date), r))
                 \o FillerCalls(g, r, f)

NoFiller(r) ==
    [asked |-> NoCategory, chosen |-> NoVideo, state |-> r.state, videos |-> r.videos]

ReplayPicked(g, item, category, r) ==
    ReplayFilled(g, category, r,
        IF r.chosen # NoVideo
        THEN GapFiller(r, daily_movies[g], item.duration - Files[r.chosen].duration,
                       Midnight(loc[g].date), loc[g].now, config.filler_categories,
                       config.recurrence_days)
        ELSE NoFiller(r))

ReplayCategory(g, item, category) ==
    ReplayPicked(g, item, category,
        _get_next_video(state[g], daily_movies[g], loc[g].videos, category, TRUE,
                        Midnight(loc[g].date), loc[g].now, config.recurrence_days))

ReplayItem(g, item) ==
    IF IsSpicaSlot(item.source)
    THEN /\ loc' = [loc EXCEPT ![g] = ReplaySpica(loc[g])]
         /\ UNCHANGED <<state, calls>>
    ELSE ReplayCategory(g, item, _map_folder_to_category(FolderName(item.source)))

\* one pass of "for item in template_program" (lines 584-647)
ReplaySlot(g) ==
    /\ pc[g] = "replay"
    /\ loc[g].item_idx < Len(loc[g].template)
    /\ ReplayItem(g, loc[g].template[loc[g].item_idx + 1])
    /\ UNCHANGED <<fs, config, disk, pc, out_dir, daily_movies, runs>>

\* the template is exhausted: _save_state and return (lines 649-654)
ReplayFinish(g) ==
    /\ pc[g] = "replay"
    /\ loc[g].item_idx >= Len(loc[g].template)
    /\ Finish(g, loc[g].channel, loc[g].program)

NextTemplate ==
    \/ \E g \in Engines, dir \in Dirs : Construct(g, dir)
    \/ \E g \in Engines, date \in Dates, now \in NowValues :
          Len(runs) < MaxTemplateRuns /\ GenerateStart(g, date, now)
    \/ \E g \in Engines, tpl \in Templates, date \in Dates, now \in NowValues :
          TemplateStart(g, tpl, date, now)
    \/ \E g \in Engines, tpl \in Templates : TemplateRaises(g, tpl)
    \/ \E g \in Engines : GenerateRaises(g)
    \/ \E g \in Engines : ReplaySlot(g)
    \/ \E g \in Engines : ReplayFinish(g)
    \/ \E g \in Engines : NightAnchor(g)
    \/ \E g \in Engines : FixedSlot(g)
    \/ \E g \in Engines : FastForward(g)
    \/ \E g \in Engines : DailyMovie(g)
    \/ \E g \in Engines : Fill(g)
    \/ \E g \in Engines : BreakLoop(g)
    \/ \E g \in Engines : ExitLoop(g)

SpecTemplate == Init /\ [][NextTemplate]_vars

(***************************************************************************)
(* The selector on its own: _get_next_video called on an engine whose      *)
(* playback state was loaded from a state file and whose daily selection   *)
(* holds a stamped item of the pool.                                       *)
(***************************************************************************)
MaxCalls == 3          \* selector calls in one behaviour

\* the timestamps found in the loaded state
SelStamps == {isoformat(Midnight(0)), isoformat([day |-> MaxDay + 1, sec |-> 36000])}

\* the feature pool whose items the loaded state knows
SelPool == {f_dok_a, f_dok_b, f_dok_c}

SelStates ==
    { [last_played |-> lp, serije_last_episode_path |-> NoVideo] :
        lp \in UNION { [S -> SelStamps] : S \in SUBSET SelPool } }

\* the day's selection: nothing, or a stamped item of the feature pool
SelDaily(st) ==
    {NoDaily} \cup { [NoDaily EXCEPT !["dokumentarni"] = d] : d \in DOMAIN st.last_played }

SelCategories == {"dokumentarni", "molitve"}

InitSel ==
    /\ fs = AllFiles
    /\ config \in {DefaultConfig, StrictConfig}
    /\ disk = [d \in Dirs |-> NoFile]
    /\ pc = [g \in Engines |-> "select"]
    /\ out_dir = [g \in Engines |-> "A"]
    /\ state \in [Engines -> SelStates]
    /\ daily_movies \in [Engines -> UNION {SelDaily(st) : st \in SelStates}]
    /\ \A g \in Engines : daily_movies[g] \in SelDaily(state[g])
    /\ loc = [g \in Engines |-> [IdleLoc EXCEPT !.mode = "select",
                                                !.videos = _scan_videos(fs)]]
    /\ calls = <<>>
    /\ runs = <<>>

\* the engine's state and list after the call; the call is recorded with its engine
Selected(g, category, skip_daily, target_date, r) ==
    /\ state' = [state EXCEPT ![g] = r.state]
    /\ loc' = [loc EXCEPT ![g].videos = r.videos]
    /\ calls' = Append(calls, [engine |-> g]
                               @@ CallRecord(state[g], daily_movies[g], loc[g].videos,
                                             category, skip_daily, target_date, r))

\* one call of _get_next_video(category, videos, skip_daily, target_date)
SelectorCall(g, category, skip_daily, date) ==
    /\ pc[g] = "select"
    /\ Len(calls) < MaxCalls
    /\ Selected(g, category, skip_daily, Midnight(date),
                _get_next_video(state[g], daily_movies[g], loc[g].videos, category,
                                skip_daily, Midnight(date), NoDate, config.recurrence_days))
    /\ UNCHANGED <<fs, config, disk, pc, out_dir, daily_movies, runs>>

NextSel ==
    \E g \in Engines, category \in SelCategories, skip_daily \in BOOLEAN, date \in Dates :
        SelectorCall(g, category, skip_daily, date)

SpecSel == InitSel /\ [][NextSel]_vars


(***************************************************************************)
(* Direct calls of _map_folder_to_category on folder names built from the  *)
(* keywords of its tests, in either case, and from neutral text.           *)
(***************************************************************************)
MaxMapCalls == 2       \* mapper calls in one behaviour

\* pieces of folder names
NameParts ==
    { <<>>, <<"x">>, <<"P","s","a","l","t","i","r">>, <<"M","O","L","I","T","V","E">>,
      s_duhov, <<"P","o","u","k","e">>, s_decij, s_serij, <<"F","I","L","M">>,
      s_dokument, <<"P","u","t","o","p","i","s","i">>, s_muzik }

FolderNames == {a \o b : a \in NameParts, b \in NameParts}

InitMap ==
    /\ fs = {}
    /\ config = DefaultConfig
    /\ disk = [d \in Dirs |-> NoFile]
    /\ pc = [g \in Engines |-> "map"]
    /\ out_dir = [g \in Engines |-> "A"]
    /\ state = [g \in Engines |-> EmptyState]
    /\ daily_movies = [g \in Engines |-> NoDaily]
    /\ loc = [g \in Engines |-> [IdleLoc EXCEPT !.mode = "map"]]
    /\ calls = <<>>
    /\ runs = <<>>

\* one call of _map_folder_to_category(folder_name)
MapFolder(folder_name) ==
    /\ \A g \in Engines : pc[g] = "map"
    /\ Len(calls) < MaxMapCalls
    /\ calls' = Append(calls, [folder |-> folder_name,
                               category |-> _map_folder_to_category(folder_name)])
    /\ UNCHANGED <<fs, config, disk, pc, out_dir, state, daily_movies, loc, runs>>

NextMap == \E folder_name \in FolderNames : MapFolder(folder_name)

SpecMap == InitMap /\ [][NextMap]_vars

(***************************************************************************)
(* Direct calls of _was_played_recently on an engine whose state holds no  *)
(* entry, an unparsable entry or a timestamp for one path.                 *)
(***************************************************************************)
MaxRecentCalls == 1    \* calls of _was_played_recently in one behaviour
MaxPlayedDay == 2      \* the stored timestamps lie on the days 0..MaxPlayedDay
MaxTargetDay == 6      \* the target dates are the days 0..MaxTargetDay

\* times of day: midnight and the last second of the day
DayTimes == {0, 86399}

\* values of recurrence_exclusion_days
RecentWindows == {0, 1, 2, 3}

\* the path the calls ask about
RecentPath == f_dok_a

\* the last_played maps: no entry, an empty string, a timestamp
RecentMaps ==
    {<<>>, Table([p \in {RecentPath} |-> <<>>])}
    \cup {Table([p \in {RecentPath} |-> isoformat([day |-> d, sec |-> s])]) :
            d \in 0..MaxPlayedDay, s \in DayTimes}

InitRecent ==
    /\ fs = AllFiles
    /\ \E w \in RecentWindows : config = [DefaultConfig EXCEPT !.recurrence_days = w]
    /\ disk = [d \in Dirs |-> NoFile]
    /\ pc = [g \in Engines |-> "recent"]
    /\ out_dir = [g \in Engines |-> "A"]
    /\ \E lp \in RecentMaps :
          state = [g \in Engines |-> [EmptyState EXCEPT !.last_played = lp]]
    /\ daily_movies = [g \in Engines |-> NoDaily]
    /\ loc = [g \in Engines |-> [IdleLoc EXCEPT !.mode = "recent"]]
    /\ calls = <<>>
    /\ runs = <<>>

\* one call of _was_played_recently(filepath, date_obj)
CheckRecent(g, filepath, date_obj) ==
    /\ pc[g] = "recent"
    /\ Len(calls) < MaxRecentCalls
    /\ calls' = Append(calls,
                  [engine |-> g, filepath |-> filepath, date_obj |-> date_obj,
                   result |-> _was_played_recently(state[g], filepath, date_obj,
                                                   config.recurrence_days)])
    /\ UNCHANGED <<fs, config, disk, pc, out_dir, state, daily_movies, loc, runs>>

NextRecent ==
    \E g \in Engines, d \in 0..MaxTargetDay, s \in DayTimes :
        CheckRecent(g, RecentPath, [day |-> d, sec |-> s])

SpecRecent == InitRecent /\ [][NextRecent]_vars

(***************************************************************************)
(* create_week_playlists (routes.py): seven consecutive days, each with a  *)
(* new PlaylistGenerator whose output directory is the month directory of  *)
(* its target date.  Day 0 is 1 January: the days 0..30 lie in January,    *)
(* the days from 31 on in February.                                        *)
(***************************************************************************)
WeekDays == 7          \* range(7)

\* the start dates: a week inside January, a week that runs into February
WeekStarts == {0, 27}

\* target_date.month
MonthOf(date) == IF date < 31 THEN 1 ELSE 2

\* dest_dir = out_root / year / month
DestDir(date) == IF MonthOf(date) = 1 THEN "A" ELSE "B"

\* target_date = date_obj + timedelta(days=day_offset), the completed runs
\* counting the days done
TargetDate(start) == start + Len(runs)

\* one pass of "for day_offset in range(7)" up to the constructor call
WeekConstruct(g, start) ==
    /\ pc[g] \in {"none", "idle"}
    /\ loc[g].date = -1
    /\ Len(runs) < WeekDays
    /\ runs # <<>> => start = runs[1].date
    /\ pc' = [pc EXCEPT ![g] = "idle"]
    /\ out_dir' = [out_dir EXCEPT ![g] = DestDir(TargetDate(start))]
    /\ state' = [state EXCEPT ![g] = _load_state(disk[DestDir(TargetDate(start))])]
    /\ daily_movies' = [daily_movies EXCEPT ![g] = NoDaily]
    /\ loc' = [loc EXCEPT ![g] = [IdleLoc EXCEPT !.date = TargetDate(start)]]
    /\ calls' = <<>>
    /\ UNCHANGED <<fs, config, disk, runs>>

\* generator.generate_playlist(date=target_date...), up to the while loop;
\* the wall clock of the days of one week call is the same reading
WeekGenerate(g, now) ==
    /\ pc[g] = "idle"
    /\ loc[g].date >= 0
    /\ runs # <<>> => now = runs[1].now
    /\ WellFormed(state[g])
    /\ EnterLoop(g, BeginGenerate(g, loc[g].date, now))
    /\ UNCHANGED <<fs, config, disk, out_dir, runs>>

\* the first generate_playlist call of the week ends with an exception
WeekRaises(g) ==
    /\ loc[g].date >= 0
    /\ GenerateRaises(g)

NextWeek ==
    \/ \E g \in Engines, start \in WeekStarts : WeekConstruct(g, start)
    \/ \E g \in Engines, now \in NowValues : WeekGenerate(g, now)
    \/ \E g \in Engines : WeekRaises(g)
    \/ \E g \in Engines : NightAnchor(g)
    \/ \E g \in Engines : FixedSlot(g)
    \/ \E g \in Engines : FastForward(g)
    \/ \E g \in Engines : DailyMovie(g)
    \/ \E g \in Engines : Fill(g)
    \/ \E g \in Engines : BreakLoop(g)
    \/ \E g \in Engines : ExitLoop(g)

SpecWeek == Init /\ [][NextWeek]_vars

(***************************************************************************)
(* Two generators on one output directory, both constructed before either  *)
(* saves.  _save_state (lines 54-62) is "open(state_file, 'w')" followed   *)
(* by json.dump into the stream: the open truncates the file, the stream   *)
(* writes a block each time its buffer fills and the rest when the file is *)
(* closed, every writer at its own file offset.  Nothing locks the file.   *)
(* While a save is in progress the file is of kind "text", its content the *)
(* sequence of blocks it holds.                                            *)
(***************************************************************************)
Racers == 1..(NumEngines + 1)

\* the last_played entries whose text fills the stream's buffer
BufferEntries == 8

\* the number of blocks the text of a state is written in
Parts(st) == 1 + Cardinality(DOMAIN st.last_played) \div BufferEntries

\* block i of the text of the state st
Block(st, i) == [of |-> st, part |-> i]

\* the text json.dump produces for a state, block by block
Text(st) == Tuple([i \in 1..Parts(st) |-> Block(st, i)])

\* the bytes of a file no writer has written yet
Hole == [of |-> EmptyState, part |-> 0]

\* a write of the block c at block offset i
PutAt(content, i, c) ==
    Tuple([j \in 1..(IF i > Len(content) THEN i ELSE Len(content)) |->
              IF j = i THEN c ELSE IF j <= Len(content) THEN content[j] ELSE Hole])

\* open(state_file, 'w'): the file exists and is empty
Truncated(file) == [exists |-> TRUE, kind |-> "text", content |-> <<>>, writes |-> file.writes]

\* the file after the writer g has written its next block
Written(g, file) ==
    [file EXCEPT !.content = PutAt(@, loc[g].written + 1,
                                   Block(state[g], loc[g].written + 1))]

\* the file after the writer g has written its last block and closed it
Closed(g, file) == [Written(g, file) EXCEPT !.writes = @ + 1]

InitRace ==
    /\ \E inst \in {i \in Installations : i.file.kind # "badmap"} :
          /\ fs = inst.fs
          /\ config = inst.config
          /\ disk = [d \in Dirs |-> inst.file]
    /\ pc = [g \in Racers |-> "none"]
    /\ out_dir = [g \in Racers |-> "A"]
    /\ state = [g \in Racers |-> EmptyState]
    /\ daily_movies = [g \in Racers |-> NoDaily]
    /\ loc = [g \in Racers |-> IdleLoc]
    /\ calls = <<>>
    /\ runs = <<>>

\* PlaylistGenerator.__init__ on the shared output directory: every generator
\* loads the state before any of them generates
RaceConstruct(g) ==
    /\ pc[g] = "none"
    /\ \A h \in Racers : pc[h] \in {"none", "idle"}
    /\ pc' = [pc EXCEPT ![g] = "idle"]
    /\ state' = [state EXCEPT ![g] = _load_state(disk[out_dir[g]])]
    /\ UNCHANGED <<fs, config, disk, out_dir, daily_movies, loc, calls, runs>>

\* generate_playlist, up to the while loop.  The loops touch only their own
\* generator's memory, so their steps are taken one generator after the
\* other; the saves interleave freely with them and with each other.
RaceGenerate(g, date, now) ==
    /\ pc[g] = "idle"
    /\ \A h \in Racers : pc[h] \notin {"none", "loop"}
    /\ \A k \in DOMAIN runs : runs[k].engine # g
    /\ EnterLoop(g, BeginGenerate(g, date, now))
    /\ UNCHANGED <<fs, config, disk, out_dir, runs>>

\* the loop ends (lines 420 and 510-512): _save_state is about to be called
RaceLeave(g) ==
    /\ pc' = [pc EXCEPT ![g] = "save"]
    /\ UNCHANGED <<fs, config, disk, out_dir, state, daily_movies, loc, calls, runs>>

RaceBreak(g) ==
    /\ InLoop(g)
    /\ ~NightDue(loc[g])
    /\ ~SlotDue(loc[g]) /\ ~SlotImminent(loc[g])
    /\ ~MovieDue(loc[g], daily_movies[g])
    /\ loc[g].fill_categories = <<>>
    /\ RaceLeave(g)

RaceExit(g) ==
    /\ pc[g] = "loop"
    /\ loc[g].cursor >= loc[g].day_end
    /\ RaceLeave(g)

\* _save_state: open(state_file, 'w')
SaveOpen(g) ==
    /\ pc[g] = "save"
    /\ disk' = [disk EXCEPT ![out_dir[g]] = Truncated(@)]
    /\ pc' = [pc EXCEPT ![g] = "write"]
    /\ UNCHANGED <<fs, config, out_dir, state, daily_movies, loc, calls, runs>>

\* _save_state: the stream writes a block that is not the last one
SaveWrite(g) ==
    /\ pc[g] = "write"
    /\ loc[g].written + 1 < Parts(state[g])
    /\ disk' = [disk EXCEPT ![out_dir[g]] = Written(g, @)]
    /\ loc' = [loc EXCEPT ![g].written = @ + 1]
    /\ UNCHANGED <<fs, config, pc, out_dir, state, daily_movies, calls, runs>>

\* _save_state: the last block is written, the file closed; the call returns
SaveClose(g) ==
    /\ pc[g] = "write"
    /\ loc[g].written + 1 = Parts(state[g])
    /\ disk' = [disk EXCEPT ![out_dir[g]] = Closed(g, @)]
    /\ runs' = Append(runs,
                  [engine |-> g, dir |-> out_dir[g], channel |-> "Channel 1",
                   mode |-> loc[g].mode, date |-> loc[g].date, now |-> loc[g].now,
                   start_state |-> loc[g].start_state, slots |-> loc[g].slots,
                   end_state |-> state[g], daily |-> daily_movies[g],
                   program |-> loc[g].program,
                   disk_before |-> loc[g].disk_before,
                   disk_after |-> Closed(g, disk[out_dir[g]]),
                   exit |-> ExitOf(loc[g])])
    /\ pc' = [pc EXCEPT ![g] = "idle"]
    /\ loc' = [loc EXCEPT ![g] = IdleLoc]
    /\ UNCHANGED <<fs, config, out_dir, state, daily_movies, calls>>

NextRace ==
    \/ \E g \in Racers : RaceConstruct(g)
    \/ \E g \in Racers, date \in Dates, now \in NowValues : RaceGenerate(g, date, now)
    \/ \E g \in Racers : NightAnchor(g)
    \/ \E g \in Racers : FixedSlot(g)
    \/ \E g \in Racers : FastForward(g)
    \/ \E g \in Racers : DailyMovie(g)
    \/ \E g \in Racers : Fill(g)
    \/ \E g \in Racers : RaceBreak(g)
    \/ \E g \in Racers : RaceExit(g)
    \/ \E g \in Racers : SaveOpen(g)
    \/ \E g \in Racers : SaveWrite(g)
    \/ \E g \in Racers : SaveClose(g)

SpecRace == InitRace /\ [][NextRace]_vars
(***************************************************************************)
(* Properties.                                                             *)
(***************************************************************************)
\* the station-identifier clip of the installation
Identifier == _find_spica(_scan_videos(fs), config.spica_file)

\* the completed runs of generate_playlist
GenerateRuns == {k \in DOMAIN runs : runs[k].mode \in {"standard", "fallback"}}

\* how often a path occurs as a source of a program
Occurrences(program, p) == Cardinality({i \in DOMAIN program : program[i].source = p})

\* items i and i+1 of a program are both the clip p
AdjacentPair(program, i, p) ==
    program[i].source = p /\ program[i + 1].source = p

\* run k started from the state run j left in the same output directory
Follows(j, k) ==
    /\ j < k
    /\ runs[j].dir = runs[k].dir
    /\ runs[k].start_state = runs[j].end_state

\* C1: in every program returned by generate_playlist, no two adjacent items
\* both have the station-identifier clip's path as their source.
C1_IdentifierNeverAdjacent ==
    \A k \in GenerateRuns :
        \A i \in 1..(Len(runs[k].program) - 1) :
            Identifier # NoVideo => ~AdjacentPair(runs[k].program, i, Identifier)

\* C2: in every program returned by generate_playlist, the day's feature item
\* of each feature category occurs at most 3 times, whatever rule emitted it,
\* also when the category's pool holds a single item.
C2_FeatureAtMostThrice ==
    \A k \in GenerateRuns :
        \A cat \in {"serije", "dokumentarni", "deciji"} :
            runs[k].daily[cat] # NoVideo
                => Occurrences(runs[k].program, runs[k].daily[cat]) <= 3

\* C3: two generation calls for the same date, the second starting from the
\* state the first persisted, select the same feature item for each of the
\* three feature categories.
C3_SameDateSameFeatures ==
    \A j \in GenerateRuns, k \in GenerateRuns :
        (Follows(j, k) /\ runs[j].date = runs[k].date)
            => runs[k].daily = runs[j].daily

\* the item f has a parsable timestamp less than `days` calendar days before
\* the date
PlayedWithin(last_played, f, date, days) ==
    /\ f \in DOMAIN last_played
    /\ Len(last_played[f]) = 2
    /\ date.day - last_played[f][1] < days

\* at the call c the item f was not played within the exclusion window
EligibleAt(c, f) ==
    ~PlayedWithin(c.last_played, f, c.target_date, config.recurrence_days)

\* the day's feature item of the category a call asks for
FeatureOf(c) ==
    IF c.category \in DOMAIN c.daily_movies THEN c.daily_movies[c.category] ELSE NoVideo

\* the items a call chooses among: the category's pool, without the day's
\* feature item when skip_daily is set and the pool holds other items
CandidateSet(c) ==
    IF c.skip_daily /\ FeatureOf(c) # NoVideo /\ Range(c.files) \ {FeatureOf(c)} # {}
    THEN Range(c.files) \ {FeatureOf(c)}
    ELSE Range(c.files)

\* C4 as stated: whenever the pool of the requested category holds an item not
\* played within the exclusion window of the target date, _get_next_video
\* does not return an item played within it.
C4_PoolHasEligible ==
    \A i \in DOMAIN calls :
        (\E f \in Range(calls[i].files) : EligibleAt(calls[i], f))
            => (calls[i].chosen # NoVideo /\ EligibleAt(calls[i], calls[i].chosen))

\* C4, amended: whenever the candidate set (the pool, without the day's
\* feature item when skip_daily is set and other items exist) holds an item
\* not played within the exclusion window of the target date, _get_next_video
\* returns an item of the candidate set that was not played within it.
C4_RecurrenceExclusion ==
    \A i \in DOMAIN calls :
        (\E f \in CandidateSet(calls[i]) : EligibleAt(calls[i], f))
            => /\ calls[i].chosen \in CandidateSet(calls[i])
               /\ EligibleAt(calls[i], calls[i].chosen)

\* a call whose candidates held both recently played and eligible items
C4_Witness ==
    \E i \in DOMAIN calls :
        /\ \E f \in CandidateSet(calls[i]) : EligibleAt(calls[i], f)
        /\ \E f \in CandidateSet(calls[i]) : ~EligibleAt(calls[i], f)
        /\ calls[i].skip_daily /\ FeatureOf(calls[i]) # NoVideo
        /\ calls[i].chosen # NoVideo

\* the timestamp a is earlier than the timestamp b
StampBefore(a, b) == a[1] < b[1] \/ (a[1] = b[1] /\ a[2] < b[2])

\* at the call c the item a is ahead of the item b: an older timestamp, or the
\* same timestamp and an earlier modification time
Older(c, a, b) ==
    \/ StampBefore(c.last_played[a], c.last_played[b])
    \/ /\ c.last_played[a] = c.last_played[b]
       /\ Files[a].mtime < Files[b].mtime

\* C5 as stated: when every item of the requested category's pool was played
\* within the exclusion window, _get_next_video returns the item of that
\* pool with the oldest timestamp (earliest modification time among equal
\* timestamps).
C5_OldestOfPool ==
    \A i \in DOMAIN calls :
        (/\ calls[i].files # <<>>
         /\ \A f \in Range(calls[i].files) : ~EligibleAt(calls[i], f))
            => /\ calls[i].chosen \in Range(calls[i].files)
               /\ \A f \in Range(calls[i].files) : ~Older(calls[i], f, calls[i].chosen)

\* C5, amended: when every item of the candidate set was played within the
\* exclusion window, _get_next_video returns the item of the candidate set
\* with the oldest timestamp (earliest modification time among equal
\* timestamps), not none.
C5_OldestOfCandidates ==
    \A i \in DOMAIN calls :
        (/\ calls[i].files # <<>>
         /\ \A f \in CandidateSet(calls[i]) : ~EligibleAt(calls[i], f))
            => /\ calls[i].chosen \in CandidateSet(calls[i])
               /\ \A f \in CandidateSet(calls[i]) : ~Older(calls[i], f, calls[i].chosen)

\* a fallback among candidates with different timestamps
C5_Witness ==
    \E i \in DOMAIN calls :
        /\ \A f \in CandidateSet(calls[i]) : ~EligibleAt(calls[i], f)
        /\ \E f \in CandidateSet(calls[i]) : Older(calls[i], calls[i].chosen, f)
        /\ calls[i].chosen # NoVideo

\* the files of the table that are episodes of a series
EpisodeFiles ==
    {p \in FileIds : /\ _map_folder_to_category(Files[p].folder) = "serije"
                     /\ Lower(Suffix(Files[p].filename)) \in VideoSuffixes
                     /\ SeriesInfo[p] # NoMatch}

\* the episodes of the series pool
SerijeEpisodes == fs \cap EpisodeFiles

\* the episodes of the series the episode p belongs to
GroupOf(p) == {q \in SerijeEpisodes : SeriesInfo[q].name = SeriesInfo[p].name}

\* a comes before b in (season, episode) order
EpisodeBefore(a, b) ==
    \/ SeriesInfo[a].season < SeriesInfo[b].season
    \/ /\ SeriesInfo[a].season = SeriesInfo[b].season
       /\ SeriesInfo[a].episode < SeriesInfo[b].episode

\* pick is the episode right after last in its group, the group's first
\* episode when last is the group's last one
IsNextEpisode(last, pick) ==
    /\ pick \in GroupOf(last)
    /\ IF \E q \in GroupOf(last) : EpisodeBefore(last, q)
       THEN /\ EpisodeBefore(last, pick)
            /\ ~\E q \in GroupOf(last) : EpisodeBefore(last, q) /\ EpisodeBefore(q, pick)
       ELSE ~\E q \in GroupOf(last) : EpisodeBefore(q, pick)

\* C6: across successive runs with an unchanged series pool and the state
\* carried from run to run, the "serije" pick is the episode following the
\* stored last episode in (season, episode) order within its series group,
\* wrapping to the group's first episode; with S01E01 and S01E02 and no prior
\* state, three successive runs pick E01, E02, E01.
C6_SeriesAdvances ==
    /\ \A k \in GenerateRuns :
          (/\ runs[k].start_state.serije_last_episode_path # NoVideo
           /\ runs[k].start_state.serije_last_episode_path \in SerijeEpisodes)
              => IsNextEpisode(runs[k].start_state.serije_last_episode_path,
                               runs[k].daily["serije"])
    /\ \A k \in GenerateRuns :
          (/\ k + 2 <= Len(runs)
           /\ runs[k].start_state = EmptyState
           /\ Follows(k, k + 1) /\ Follows(k + 1, k + 2)
           /\ {f_show_e01, f_show_e02} \subseteq fs)
              => /\ runs[k].daily["serije"] = f_show_e01
                 /\ runs[k + 1].daily["serije"] = f_show_e02
                 /\ runs[k + 2].daily["serije"] = f_show_e01

\* three chained runs from no prior state that went around the series once
C6_Witness ==
    /\ Len(runs) = 3
    /\ runs[1].start_state = EmptyState
    /\ Follows(1, 2) /\ Follows(2, 3)
    /\ runs[2].daily["serije"] = f_show_e02
    /\ runs[3].daily["serije"] = f_show_e01

\* C7: two generate_playlist runs from identical pools, identical persisted
\* state and the same date return identical programs, whatever the wall
\* clock reads when each one executes.
C7_Deterministic ==
    \A j \in GenerateRuns, k \in GenerateRuns :
        (runs[j].start_state = runs[k].start_state /\ runs[j].date = runs[k].date)
            => runs[j].program = runs[k].program

\* two runs from the same non-empty state and date at different wall-clock
\* times, whose programs hold selector picks of the series category
C7_Witness ==
    \E j \in GenerateRuns, k \in GenerateRuns :
        /\ runs[j].start_state = runs[k].start_state
        /\ runs[j].start_state # EmptyState
        /\ runs[j].date = runs[k].date
        /\ runs[j].now # runs[k].now
        /\ runs[j].program # <<>>
        /\ \E i \in DOMAIN runs[j].program :
              /\ runs[j].program[i].source \in SerijeEpisodes
              /\ runs[j].program[i].source # runs[j].daily["serije"]

FreshSeries ==
    /\ calls # <<>>
    /\ DOMAIN calls[1].last_played = {}
    /\ Len(calls) <= Len(calls[1].files)
    /\ \A i \in DOMAIN calls :
          /\ calls[i].engine = calls[1].engine
          /\ calls[i].category = calls[1].category
          /\ calls[i].target_date = calls[1].target_date

\* C9: from the empty state, N consecutive _get_next_video calls for a
\* category of N never-played items and one target date return all N items
\* in ascending modification-time order, and each returned item is recorded
\* in last_played with the target date.
C9_FreshInMtimeOrder ==
    \A g \in Engines :
        (pc[g] = "select" /\ FreshSeries /\ calls[1].engine = g) =>
            /\ \A i \in DOMAIN calls : calls[i].chosen \in Range(calls[1].files)
            /\ \A i \in DOMAIN calls, j \in DOMAIN calls :
                  i < j => /\ calls[i].chosen # calls[j].chosen
                           /\ Files[calls[i].chosen].mtime <= Files[calls[j].chosen].mtime
            /\ Len(calls) = Len(calls[1].files)
                  => {calls[i].chosen : i \in DOMAIN calls} = Range(calls[1].files)
            /\ \A i \in DOMAIN calls :
                  /\ calls[i].chosen \in DOMAIN state[g].last_played
                  /\ state[g].last_played[calls[i].chosen]
                        = <<calls[1].target_date.day, 0>>

\* three calls went through a pool of three never-played items whose
\* modification-time order differs from their order in the pool
C9_Witness ==
    /\ FreshSeries
    /\ Len(calls) = 3
    /\ Len(calls[1].files) = 3
    /\ calls[1].chosen = f_dok_b
    /\ calls[2].chosen = f_dok_c
    /\ calls[3].chosen = f_dok_a

\* the scanned media hold a "15min" folder with a clip
HasShortFillerFolder ==
    \E p \in fs : Files[p].folder = s_min15 /\ Lower(Suffix(Files[p].filename)) \in VideoSuffixes

\* the items the i-th handled template slot put into the program
SlotItems(l, i) ==
    SubSeq(l.program, l.slots[i].at + 1,
           IF i < Len(l.slots) THEN l.slots[i + 1].at ELSE Len(l.program))

\* C10: in template replay with the default filler configuration, a slot of
\* 1800 s whose fresh pick lasts 900 s, with a "15min" folder holding a clip,
\* yields the fresh item immediately followed by exactly one filler item
\* taken from that folder.
C10_GapFilledFromShortFolder ==
    \A g \in Engines :
        pc[g] = "replay" =>
            \A i \in DOMAIN loc[g].slots :
                (/\ config.filler_categories = DefaultFillerCategories
                 /\ HasShortFillerFolder
                 /\ loc[g].template[i].duration = 1800
                 /\ loc[g].slots[i].fresh # NoVideo
                 /\ Files[loc[g].slots[i].fresh].duration = 900)
                    => /\ Len(SlotItems(loc[g], i)) = 2
                       /\ SlotItems(loc[g], i)[1].source = loc[g].slots[i].fresh
                       /\ Files[SlotItems(loc[g], i)[2].source].folder = s_min15


\* C11: during generate_playlist and generate_playlist_from_template the state
\* file is written exactly once, at the end of the run, after the last
\* selection: while the run is in progress the file in the engine's output
\* directory is what it was when the run began, and the file a completed run
\* leaves holds the state after the run's last pick, one write later.
C11_PersistedOnceAtEnd ==
    /\ \A g \in Engines :
          pc[g] \in {"loop", "replay"} => disk[out_dir[g]] = loc[g].disk_before
    /\ \A k \in DOMAIN runs :
          /\ runs[k].disk_after.writes = runs[k].disk_before.writes + 1
          /\ runs[k].disk_after.content = runs[k].end_state

\* a second run has made picks that the state file, written once by the first
\* run, does not hold yet
C11_Witness ==
    \E g \in Engines :
        /\ pc[g] \in {"loop", "replay"}
        /\ Len(runs) >= 1
        /\ calls # <<>>
        /\ disk[out_dir[g]].writes = 1
        /\ state[g] # disk[out_dir[g]].content

\* C12: an engine constructed on a state file that is missing, unreadable, not
\* valid JSON or valid JSON of an unexpected shape holds the empty state, and
\* no generation run of it ends with an exception raised on the loaded state.
C12_MalformedFileIsColdStart ==
    \A g \in Engines :
        /\ (/\ pc[g] = "idle"
            /\ \/ ~disk[out_dir[g]].exists
               \/ disk[out_dir[g]].kind # "state")
              => state[g] = EmptyState
        /\ ~(pc[g] = "raised" /\ loc[g].cause = "state")

\* C13: when the template file is missing or corrupt,
\* generate_playlist_from_template does not raise, persists the state once and
\* returns the program generate_playlist returns for the same state, pools
\* and date.
C13_BadTemplateFallsBack ==
    /\ \A g \in Engines : ~(pc[g] = "raised" /\ loc[g].cause = "template")
    /\ \A k \in DOMAIN runs :
          runs[k].mode = "fallback" =>
              /\ runs[k].disk_after.writes = runs[k].disk_before.writes + 1
              /\ \A j \in DOMAIN runs :
                    (/\ runs[j].mode = "standard"
                     /\ runs[j].start_state = runs[k].start_state
                     /\ runs[j].date = runs[k].date)
                        => runs[j].program = runs[k].program

\* the items of the current scan
ScannedItems(videos) == {Flatten(videos)[i].f : i \in DOMAIN Flatten(videos)}

\* the items chosen for a handled template slot, in the order they are emitted
ChosenFor(l, sl) ==
    IF sl.spica
    THEN IF l.spica_info # NoVideo THEN <<l.spica_info>> ELSE <<>>
    ELSE IF sl.fresh = NoVideo THEN <<>>
    ELSE IF sl.filler = NoVideo THEN <<sl.fresh>>
    ELSE <<sl.fresh, sl.filler>>

\* the sources of a sequence of program items
SourcesOf(items) == [i \in DOMAIN items |-> items[i].source]

\* C14: in template replay the items a slot puts into the program are exactly
\* the items chosen for it (the fresh pick and its filler, or the current
\* identifier clip), each an item of the current scan, never the path the
\* template recorded; a slot whose pick is none contributes nothing.
C14_ReplayEmitsOnlyChosenItems ==
    \A g \in Engines :
        pc[g] = "replay" =>
            /\ loc[g].slots # <<>> => loc[g].slots[1].at = 0
            /\ \A i \in DOMAIN loc[g].slots :
                  /\ SourcesOf(SlotItems(loc[g], i)) = ChosenFor(loc[g], loc[g].slots[i])
                  /\ \A n \in DOMAIN SlotItems(loc[g], i) :
                        SlotItems(loc[g], i)[n].source \in ScannedItems(loc[g].videos)

\* a replay that skipped a content slot for which the selector returned none
\* and filled a later one
C14_Witness ==
    \E g \in Engines :
        /\ pc[g] = "replay"
        /\ \E i \in DOMAIN loc[g].slots, j \in DOMAIN loc[g].slots :
              /\ i < j
              /\ ~loc[g].slots[i].spica /\ loc[g].slots[i].fresh = NoVideo
              /\ loc[g].slots[j].fresh # NoVideo
        /\ loc[g].program # <<>>

\* C15: in every generate_playlist run whose scan holds a night anchor clip
\* (Psaltir_02), that clip appears exactly once in the returned program,
\* whatever the target duration and the pools.
C15_NightAnchorOnce ==
    \A k \in GenerateRuns :
        runs[k].exit.psaltir_files.p02 # NoVideo
            => Occurrences(runs[k].program, runs[k].exit.psaltir_files.p02) = 1

\* C16: when the scan holds a morning anchor clip (Psaltir_01), it is the
\* first item of the program generate_playlist returns and appears exactly
\* once in it, and when the identifier policy is on and an identifier clip
\* exists the second item is the identifier.  (The anchor clip is not itself
\* the identifier clip.)
C16_MorningAnchorFirst ==
    \A k \in GenerateRuns :
        runs[k].exit.psaltir_files.p01 # NoVideo =>
            /\ runs[k].program # <<>>
            /\ runs[k].program[1].source = runs[k].exit.psaltir_files.p01
            /\ Occurrences(runs[k].program, runs[k].exit.psaltir_files.p01) = 1
            /\ (config.spica_after_every_item /\ runs[k].exit.spica_info # NoVideo)
                  => /\ Len(runs[k].program) >= 2
                     /\ runs[k].program[2].source = runs[k].exit.spica_info

\* a completed run that began with the morning anchor and the identifier and
\* went on to other items
C16_Witness ==
    \E k \in GenerateRuns :
        /\ runs[k].exit.psaltir_files.p01 = f_psaltir01
        /\ Len(runs[k].program) > 4
        /\ runs[k].program[2].source = f_spica
        /\ runs[k].program[3].source \notin {f_psaltir01, f_spica}

\* the tests of the folder mapping in their documented order: the
\* keywords of a test and the category it yields
MapTests ==
    << [keys |-> {s_psaltir}, category |-> "psaltir"],
       [keys |-> {s_molitv}, category |-> "molitve"],
       [keys |-> {s_duhov, s_pouke}, category |-> "duhovne_pouke"],
       [keys |-> {s_decij}, category |-> "deciji"],
       [keys |-> {s_serij, s_film}, category |-> "serije"],
       [keys |-> {s_dokument}, category |-> "dokumentarni"],
       [keys |-> {s_putopis}, category |-> "putopisi"],
       [keys |-> {s_muzik}, category |-> "muzika"] >>

\* the tests a folder name passes, case ignored
Hits(folder) ==
    {i \in DOMAIN MapTests : \E t \in MapTests[i].keys : Contains(Lower(folder), t)}

FirstHit(folder) == CHOOSE i \in Hits(folder) : \A j \in Hits(folder) : i <= j

WindowHours == {12, 13, 16, 17, 20, 21}

\* the night anchor exists and has not been emitted
NightPending(e) == e.psaltir_files.p02 # NoVideo /\ ~e.psaltir_02_played

\* strict mode with a fixed slot not yet handled
SlotsPending(e) == config.strict_fixed_slots /\ e.fixed_idx < Len(e.fixed_schedule)

\* a feature item under its cap with an hour of a day-part window between
\* the cursor and the end of the day
FeaturePending(e, dm) ==
    \E cat \in Range(movie_categories), h \in WindowHours :
        /\ dm[cat] # NoVideo
        /\ e.movie_play_count[cat] < MaxPlays
        /\ e.cursor < (h + 1) * 3600
        /\ h * 3600 < e.day_end

\* C18: the scheduling loop of generate_playlist is left only with the cursor
\* at or past the end of the day, or with an empty rotation set and no
\* reserved work: no night anchor still to emit, no strict fixed slot
\* unhandled, no feature item under its cap with a day-part window ahead.
C18_ExitOnlyWhenDone ==
    \A k \in GenerateRuns :
        \/ runs[k].exit.cursor >= runs[k].exit.day_end
        \/ /\ runs[k].exit.fill_categories = <<>>
           /\ ~NightPending(runs[k].exit)
           /\ ~SlotsPending(runs[k].exit)
           /\ ~FeaturePending(runs[k].exit, runs[k].daily)

\* C19: a running generate_playlist call always leaves its scheduling loop,
\* and every iteration that stays in the loop strictly advances the cursor
\* or advances the fixed-slot pointer, also when a slot's category yields
\* no item.
C19_LoopTerminates ==
    /\ \A g \in Engines : (pc[g] = "loop") ~> (pc[g] = "idle")
    /\ [][\A g \in Engines :
            (pc[g] = "loop" /\ pc'[g] = "loop") =>
                \/ loc'[g].cursor > loc[g].cursor
                \/ /\ loc'[g].fixed_idx = loc[g].fixed_idx + 1
                   /\ loc'[g].fixed_idx <= Len(loc[g].fixed_schedule)]_vars

\* a completed run that handled a slot whose category yielded no item and
\* went on to the end of the day
C19_Witness ==
    \E k \in GenerateRuns :
        /\ \E i \in DOMAIN runs[k].exit.handled : runs[k].exit.handled[i].vid = NoVideo
        /\ runs[k].exit.cursor >= runs[k].exit.day_end

\* the time of day of a configured slot in seconds, moved to the next day
\* when it lies before the start of the day
MovedTime(t) ==
    IF t[1] * 3600 + t[2] * 60 + t[3] < 6 * 3600
    THEN t[1] * 3600 + t[2] * 60 + t[3] + 86400
    ELSE t[1] * 3600 + t[2] * 60 + t[3]

\* the configured slots that are not 'psaltir' slots
ContentSlots == {j \in DOMAIN config.fixed_slots : config.fixed_slots[j].cat # "psaltir"}

\* C20: in strict mode the schedule holds the configured slots without the
\* 'psaltir' slots, times before the start of the day moved to the next day,
\* in ascending time order; the slots are handled in ascending time order, the i-th handled slot being
\* the i-th of the schedule, so each at most once; a slot is handled with the
\* cursor at or after its time, and its item, if any, is the item emitted
\* then; the slot pointer counts the handled slots, those without an item
\* included.
C20_StrictSlotsInOrder ==
    \A g \in Engines :
        pc[g] = "loop" =>
            /\ Len(loc[g].fixed_schedule) = Cardinality(ContentSlots)
            /\ \A i \in DOMAIN loc[g].fixed_schedule :
                  \E j \in ContentSlots :
                      /\ loc[g].fixed_schedule[i].cat = config.fixed_slots[j].cat
                      /\ loc[g].fixed_schedule[i].time = MovedTime(config.fixed_slots[j].time)
            /\ \A i \in DOMAIN loc[g].fixed_schedule, j \in DOMAIN loc[g].fixed_schedule :
                  i < j => loc[g].fixed_schedule[i].time <= loc[g].fixed_schedule[j].time
            /\ loc[g].handled # <<>> => config.strict_fixed_slots
            /\ Len(loc[g].handled) = loc[g].fixed_idx
            /\ \A i \in DOMAIN loc[g].handled :
                  /\ loc[g].handled[i].time = loc[g].fixed_schedule[i].time
                  /\ loc[g].handled[i].cat = loc[g].fixed_schedule[i].cat
                  /\ loc[g].handled[i].cursor >= loc[g].handled[i].time
                  /\ loc[g].handled[i].vid # NoVideo =>
                        loc[g].program[loc[g].handled[i].at + 1].source
                            = loc[g].handled[i].vid
                  /\ \A j \in DOMAIN loc[g].handled :
                        i < j => /\ loc[g].handled[i].time <= loc[g].handled[j].time
                                 /\ loc[g].handled[i].cursor <= loc[g].handled[j].cursor

\* a run over slots configured out of time order that has handled one slot
\* with an item and one whose category yielded none
C20_Witness ==
    \E g \in Engines :
        /\ pc[g] = "loop"
        /\ config.fixed_slots = ShuffledFixedSlots
        /\ \E i \in DOMAIN loc[g].handled, j \in DOMAIN loc[g].handled :
              /\ loc[g].handled[i].vid # NoVideo
              /\ loc[g].handled[j].vid = NoVideo

\* the clock hour, counted from midnight of the target date, a cursor lies in
HourSlot(cursor) == cursor \div 3600

\* C21: the day-part window rule emits a feature item only with the cursor's
\* hour in 12-14, 16-18 or 20-22, and never in a clock hour in which the same
\* item was already started earlier in the run, by the day-part rule or by a
\* strict fixed slot.
C21_OncePerHourInWindow ==
    \A g \in Engines :
        pc[g] = "loop" =>
            \A i \in DOMAIN loc[g].aired :
                /\ HourOf(loc[g].aired[i].cursor) \in WindowHours
                /\ \A j \in 1..(i - 1) :
                      ~(/\ loc[g].aired[j].vid = loc[g].aired[i].vid
                        /\ HourSlot(loc[g].aired[j].cursor) = HourSlot(loc[g].aired[i].cursor))
                /\ \A h \in DOMAIN loc[g].handled :
                      ~(/\ loc[g].handled[h].vid = loc[g].aired[i].vid
                        /\ loc[g].handled[h].cursor < loc[g].aired[i].cursor
                        /\ HourSlot(loc[g].handled[h].cursor) = HourSlot(loc[g].aired[i].cursor))

\* the scanned logical categories that are neither feature nor bookend
RotationSet(videos) ==
    {c \in Range(videos.keys) : c \notin {"serije", "dokumentarni", "deciji", "psaltir"}}

\* C22: the rotation list is the set of scanned logical categories other than
\* serije, dokumentarni, deciji and psaltir, in ascending name order; the k-th
\* fill step of a run (counted from 0) requests category number k mod n of
\* it, whatever rules fired in between; a fill step never emits an item of a
\* feature category or of the bookend category.
C22_RoundRobinFill ==
    \A g \in Engines :
        pc[g] = "loop" =>
            /\ Range(loc[g].fill_categories) = RotationSet(loc[g].videos)
            /\ \A i \in DOMAIN loc[g].fill_categories, j \in DOMAIN loc[g].fill_categories :
                  i < j => StrLess(CatText[loc[g].fill_categories[i]],
                                   CatText[loc[g].fill_categories[j]])
            /\ Len(loc[g].fills) = loc[g].fill_idx
            /\ \A k \in DOMAIN loc[g].fills :
                  /\ loc[g].fills[k].cat =
                        loc[g].fill_categories[((k - 1) % Len(loc[g].fill_categories)) + 1]
                  /\ loc[g].fills[k].vid # NoVideo =>
                        _map_folder_to_category(Files[loc[g].fills[k].vid].folder)
                            \notin {"serije", "dokumentarni", "deciji", "psaltir"}

\* a run in strict mode whose fill steps have gone round the rotation list
\* more than once, with a fixed slot and a day-part emission in between
C22_Witness ==
    \E g \in Engines :
        /\ pc[g] = "loop"
        /\ Len(loc[g].fill_categories) >= 2
        /\ Len(loc[g].fills) > Len(loc[g].fill_categories)
        /\ loc[g].handled # <<>>
        /\ loc[g].aired # <<>>

\* C23: the identifier clip is in no pool the round-robin fill or the strict
\* fixed slots pick from, and no selector call of a generate_playlist run
\* returns it.
C23_IdentifierReserved ==
    \A g \in Engines :
        (pc[g] = "loop" /\ loc[g].spica_info # NoVideo) =>
            /\ \A i \in DOMAIN Flatten(loc[g].category_videos) :
                  Flatten(loc[g].category_videos)[i].f # loc[g].spica_info
            /\ \A i \in DOMAIN calls : calls[i].chosen # loc[g].spica_info

\* C24: no step removes an entry of last_played or replaces the timestamp of
\* a path by an earlier one, also when a call is made for a target date
\* earlier than one already recorded.
C24_LastPlayedMonotone ==
    [][\A g \in Engines :
          \A p \in DOMAIN state[g].last_played :
              /\ p \in DOMAIN state'[g].last_played
              /\ ~StampLess(state'[g].last_played[p], state[g].last_played[p])]_vars

\* C25: _was_played_recently(path, T) is true exactly when the path has a
\* parsable timestamp P and date(T) - date(P) < W in whole calendar days,
\* whatever the times of day: with W >= 1 a target day from P to P + W - 1
\* gives true and the day P + W gives false.
C25_WindowInCalendarDays ==
    (\A g \in Engines : pc[g] = "recent") =>
        \A i \in DOMAIN calls :
            LET lp == state[calls[i].engine].last_played
                p == calls[i].filepath
                t == calls[i].date_obj.day
                w == config.recurrence_days
            IN  /\ calls[i].result
                    <=> /\ p \in DOMAIN lp
                        /\ Len(lp[p]) = 2
                        /\ t - lp[p][1] < w
                /\ (p \in DOMAIN lp /\ Len(lp[p]) = 2 /\ w >= 1) =>
                      /\ (t >= lp[p][1] /\ t <= lp[p][1] + w - 1) => calls[i].result
                      /\ t = lp[p][1] + w => ~calls[i].result

\* a call for the last second of day P + W - 1 on an item stamped at
\* midnight of day P, with W = 3: the item is still excluded
C25_Witness ==
    /\ \A g \in Engines : pc[g] = "recent"
    /\ config.recurrence_days = 3
    /\ \E i \in DOMAIN calls :
          /\ state[calls[i].engine].last_played =
                Table([p \in {RecentPath} |-> isoformat(Midnight(1))])
          /\ calls[i].date_obj = [day |-> 3, sec |-> 86399]
          /\ calls[i].result

\* C26: a _get_next_video call with skip_daily set returns the day's feature
\* item of the requested category only when that item is the only item of
\* the category's pool, and a call on a non-empty pool returns an item.
C26_FeatureOnlyWhenAlone ==
    \A g \in Engines :
        pc[g] = "loop" =>
            \A i \in DOMAIN calls :
                /\ (/\ calls[i].skip_daily
                    /\ HasDaily(calls[i].daily_movies, calls[i].category)
                    /\ calls[i].chosen = calls[i].daily_movies[calls[i].category])
                      => calls[i].files = <<calls[i].chosen>>
                /\ calls[i].files # <<>> => calls[i].chosen # NoVideo

\* a run in which a skip_daily call on a pool holding only the day's feature
\* item returned it
C26_Witness ==
    \E g \in Engines :
        /\ pc[g] = "loop"
        /\ \E i \in DOMAIN calls :
              /\ calls[i].skip_daily
              /\ HasDaily(calls[i].daily_movies, calls[i].category)
              /\ calls[i].files = <<calls[i].daily_movies[calls[i].category]>>
              /\ calls[i].chosen = calls[i].daily_movies[calls[i].category]

\* the state after a call that returned the item p for the target date d
AfterPick(st, p, d) ==
    [st EXCEPT !.last_played =
        [q \in (DOMAIN st.last_played) \cup {p} |->
            IF q = p THEN <<d.day, d.sec>> ELSE st.last_played[q]]]

\* C27: a _get_next_video call made in the scheduling loop that returns an
\* item changes the state only by setting last_played of that item to the
\* target date, the other entries, the series pointer and the day's feature
\* selection staying as they were; a call that returns none changes nothing.
C27_PickTouchesOneEntry ==
    [][\A g \in Engines :
          (pc[g] = "loop" /\ loc'[g] # loc[g] /\ Len(calls') = Len(calls) + 1) =>
              /\ daily_movies'[g] = daily_movies[g]
              /\ IF calls'[Len(calls')].chosen = NoVideo
                 THEN state'[g] = state[g]
                 ELSE state'[g] = AfterPick(state[g], calls'[Len(calls')].chosen,
                                            calls'[Len(calls')].target_date)]_vars

\* a run in which one call returned none and a later one, made on a state
\* that already held entries, returned an item
C27_Witness ==
    \E g \in Engines :
        /\ pc[g] = "loop"
        /\ \E i \in DOMAIN calls, j \in DOMAIN calls :
              /\ i < j
              /\ calls[i].chosen = NoVideo
              /\ calls[j].chosen # NoVideo
              /\ DOMAIN calls[j].last_played # {}

\* the series pool: the video files of the folders that map to 'serije'
SerijePool ==
    {p \in fs : /\ _map_folder_to_category(Files[p].folder) = "serije"
                /\ Lower(Suffix(Files[p].filename)) \in VideoSuffixes}

\* the first episode of the series whose name is first in sorted name order
SortedFirstEpisodes ==
    {p \in SerijeEpisodes :
        /\ \A q \in SerijeEpisodes : ~StrLess(SeriesInfo[q].name, SeriesInfo[p].name)
        /\ \A q \in GroupOf(p) : ~EpisodeBefore(q, p)}

\* C28: a generation run that starts without a last-episode pointer, or with
\* a pointer to a path that is not in the series pool, selects as the day's
\* series episode the first episode (lowest season, then episode) of the
\* series whose name is first in sorted name order, whatever the scan order.
C28_ColdStartPicksSortedFirst ==
    \A k \in GenerateRuns :
        (/\ runs[k].engine \in Engines
         /\ SerijeEpisodes # {}
         /\ \/ runs[k].start_state.serije_last_episode_path = NoVideo
            \/ runs[k].start_state.serije_last_episode_path \notin SerijePool)
        => /\ "serije" \in DOMAIN runs[k].daily
           /\ runs[k].daily["serije"] \in SortedFirstEpisodes

\* the sum of the durations of the items of a program
RECURSIVE SumDur(_)
SumDur(program) ==
    IF program = <<>> THEN 0
    ELSE program[Len(program)].duration + SumDur(SubSeq(program, 1, Len(program) - 1))

\* no fill step of the run found its category empty
NoStall(l) == \A i \in DOMAIN l.fills : l.fills[i].vid # NoVideo

\* C29: in the scheduling loop the cursor never decreases, and at every loop
\* boundary the cursor minus the day start (06:00) equals the sum of the
\* durations of the emitted items plus the total of the 15-minute stall
\* skips and the strict-mode fast-forward jumps; in non-strict mode with no
\* stall it equals exactly the sum of the emitted durations.
C29_CursorAccounting ==
    /\ [](\A g \in Engines :
            pc[g] = "loop" =>
                /\ loc[g].jumped >= 0
                /\ loc[g].cursor - DayStart = SumDur(loc[g].program) + loc[g].jumped
                /\ (~config.strict_fixed_slots /\ NoStall(loc[g])) =>
                       loc[g].cursor - DayStart = SumDur(loc[g].program))
    /\ [][\A g \in Engines :
            (pc[g] = "loop" /\ pc'[g] = "loop") => loc'[g].cursor >= loc[g].cursor]_vars

\* a strict-mode run at a loop boundary after a fast-forward jump, with items
\* emitted both before and after it
C29_Witness ==
    \E g \in Engines :
        /\ pc[g] = "loop"
        /\ config.strict_fixed_slots
        /\ loc[g].jumped > 0
        /\ Len(loc[g].handled) > 0
        /\ Len(loc[g].fills) > 0
        /\ Len(loc[g].program) > 3

\* the gap of a handled template slot: the slot's duration minus the duration
\* of its fresh pick
GapOf(l, i) == l.template[i].duration - Files[l.slots[i].fresh].duration

\* the number of items the replay emitted for its i-th slot
EmittedFor(l, i) ==
    (IF i < Len(l.slots) THEN l.slots[i + 1].at ELSE Len(l.program)) - l.slots[i].at

ReservedClips(run) ==
    {run.exit.spica_info, run.exit.psaltir_files.p01, run.exit.psaltir_files.p02}

\* C33: after a generate_playlist run for the date D every item of the
\* returned program other than the bookend and identifier clips has a
\* last_played entry in the persisted state whose calendar date is D,
\* whatever the wall-clock date of the run.
C33_PlayedItemsStampedWithTargetDate ==
    \A k \in GenerateRuns :
        \A i \in DOMAIN runs[k].program :
            runs[k].program[i].source \notin ReservedClips(runs[k]) =>
                /\ runs[k].program[i].source \in DOMAIN runs[k].disk_after.content.last_played
                /\ runs[k].disk_after.content.last_played[runs[k].program[i].source][1]
                      = runs[k].date

AllSaved == Len(runs) = Cardinality(Racers)

\* C31: when the generation runs on one output directory all loaded the state
\* before any of them saved, the state file after all of them have finished
\* holds exactly the in-memory state of the run that saved last: what only an
\* earlier saver changed is lost, and the file is never a mixture of the two.
C31_LastSaverWins ==
    AllSaved =>
        /\ disk[runs[Len(runs)].dir].kind = "text"
        /\ disk[runs[Len(runs)].dir].content = Text(runs[Len(runs)].end_state)
=============================================================================
